---- MODULE Spec2Model ----
(***************************************************************************)
(* State-machine model of the monitoring-and-alerting engine of the        *)
(* SafeFi backend: the sliding-window RateLimiter, the AutomatedScheduler   *)
(* with its data update cycle, the SubscriberAlertService, the              *)
(* DataCollectorService and the RealtimeRiskMonitor.                        *)
(*                                                                          *)
(* The specifications share the variables:                                  *)
(*   RLSpec        the RateLimiter and its concurrent acquire() callers     *)
(*   AlertSpec     the alert dispatch runs over subscribers and protocols   *)
(*   SchedSpec     the scheduler, its event loop tasks and the cycle steps  *)
(*   SchedFairSpec the same on an empty RiskScore table, with a fair loop   *)
(*   ClientSpec    one call through get_json or execute_with_backoff        *)
(*   PrefSpec      the alert type for every preference and risk value       *)
(*   AlertFairSpec the alert dispatch with runs that keep coming            *)
(*   EligSpec      the alert dispatch over inactive and unverified rows     *)
(*   CollectSpec   one collect() call and its per-protocol coroutines       *)
(*   MonitorSpec   the monitor's start / stop calls and its loops           *)
(*   StatsSpec     the RateLimiter with get_stats() and reset_stats() calls *)
(*   ResolveSpec   one identifier lookup in a provider's result list        *)
(*   CooldownSpec  the alert dispatch with RiskScore rows stored between    *)
(*                 its runs                                                 *)
(* Each specification leaves the other components in their constructed      *)
(* state.                                                                   *)
(***************************************************************************)
EXTENDS Integers, Sequences, FiniteSets, TLC

(***************************************************************************)
(* Bounds of the model.                                                     *)
(***************************************************************************)
\* RateLimiter(max_calls, period_seconds): the configured budget, scaled down.
MaxCalls == 2
\* period_seconds in clock ticks.
Period == 2
\* acquire() callers beyond the budget (the test issues max_calls + 2 calls).
ExtraCallers == 2

\* The 0.1 s margin added to the sleep of a caller that finds the window
\* full, as one clock tick.
Epsilon == 1

NumCallers == MaxCalls + ExtraCallers
Callers == 1..NumCallers
NoCaller == 0

Min(a, b) == IF a < b THEN a ELSE b
Max(a, b) == IF a > b THEN a ELSE b

VARIABLES
    \* ---- RateLimiter ----
    call_times,    \* self._call_times: ages (ticks since the grant), oldest first
    total_calls,   \* self._total_calls
    lock_holder,   \* the caller whose `async with self._lock` body is open
    lock_waiters,  \* asyncio.Lock's FIFO of parked acquirers
    rl_pc,         \* each caller's position in acquire()
    sleep_left,    \* ticks left of a caller's asyncio.sleep(sleep_time)
    grants,        \* history: ages of all grants not older than the period
    \* ---- database rows read and written by the alert dispatch ----
    subscribers,     \* EmailSubscriber rows: the preference columns
    last_alert_sent, \* EmailSubscriber.last_alert_sent: age in ticks, or NoTime
    risk_rows,       \* RiskScore rows of each protocol, oldest first (percent)
    protocol_active, \* Protocol.is_active of each protocol
    \* ---- history of the alert dispatch ----
    run_kind,        \* the dispatch run that has just returned, or "none"
    run_prev,        \* last_alert_sent as that run found it
    run_calls,       \* the calls that run made on the email service
    run_outcome,     \* what the email service answered to them
    run_notified,    \* last_notified as that run found it
    run_risk_read,   \* the RiskScore row (its index) that run read per protocol
    run_stats,       \* the statistics that run returned
    last_notified,   \* age of the last delivered notification, or NoTime
    \* ---- AutomatedScheduler and the event loop ----
    is_running,      \* self.is_running
    update_count,    \* self.update_count
    last_update_time, \* self.last_update_time: the cycle whose start it holds
    timer_interval,  \* minutes of the job's IntervalTrigger, or NoInterval
    job_registered,  \* the APScheduler job "data_update_task" is scheduled
    tasks,           \* the _run_data_update_cycle tasks on the event loop
    loop_owner,      \* the task the event loop is executing, or NoTask
    tasks_created,   \* history: cycle tasks created so far
    metric_count,    \* number of ProtocolMetric rows of each protocol
    metrics_stats,   \* what _update_protocol_metrics returned to the cycle
    refresh_failed,  \* history: the protocols whose refresh raised in it
    refresh_prev,    \* history: metric_count as that refresh found it
    risk_appended,   \* history: the RiskScore row the cycle's step 2 added
    sched_log,       \* history: the scheduler call or cycle end just logged
    \* ---- one call through the retrying wrappers ----
    call_op,         \* the call: "fetch" (fetch_market_snapshot), "ewb"
                     \* (execute_with_backoff), or "none"
    call_pc,         \* where the call is
    attempt,         \* get_json's attempt / execute_with_backoff's retry_count
    last_exc,        \* get_json's last_exc / execute_with_backoff's last_error
    call_log,        \* history: the attempts of the call and the sleep after each
    requests_sent,   \* history: requests sent to the provider
    \* ---- the alert type derived for one subscriber and one risk value ----
    pref_sub,        \* the subscriber's preference columns
    pref_pct,        \* risk_score_pct
    pref_type,       \* alert_type, "none" for None, "unset" before the derivation
    \* ---- one call of DataCollectorService.collect ----
    collect_pc,      \* where collect() is: "idle", "gathering", "returned"
    collect_tasks,   \* the _collect_from_cg coroutine of each selected protocol
    processed,       \* what collect() returned, or NoCount
    \* ---- RealtimeRiskMonitor ----
    monitor_running, \* self.is_running of the monitor
    monitor_loops,   \* the start_monitoring() coroutines and where they are
    last_alerts,     \* self.last_alerts: age in ticks per protocol, or NoTime
    monitor_checkers, \* history: the loops that ran a check since the last start
    \* ---- the statistics of the RateLimiter ----
    total_rate_limited, \* self._total_rate_limited
    stats_pc,        \* where the _get_stats() coroutine of a get_stats() call is
    \* ---- one identifier resolution against a provider ----
    resolve_name,    \* the protocol's name
    resolve_symbol,  \* the protocol's token symbol, or NoSymbol
    resolve_list,    \* the provider's result list
    resolve_pc,      \* the resolver that has returned, or "idle"
    resolve_result,  \* what it returned: the index of the entry, or NotFound
    \* ---- history of the candidates the cooldown held back ----
    suppressed,      \* protocols skipped for the cooldown since the last send
    run_suppressed   \* suppressed as the last run found it

rlVars == <<call_times, total_calls, lock_holder, lock_waiters, rl_pc,
            sleep_left, grants>>

alertVars == <<subscribers, last_alert_sent, risk_rows, protocol_active,
               run_kind, run_prev,
               run_calls, run_outcome, run_notified, run_risk_read,
               run_stats, last_notified>>

schedVars == <<is_running, update_count, last_update_time, timer_interval,
               job_registered, tasks, loop_owner, tasks_created, metric_count,
               metrics_stats, refresh_failed, refresh_prev, risk_appended,
               sched_log>>

clientVars == <<call_op, call_pc, attempt, last_exc, call_log, requests_sent>>

prefVars == <<pref_sub, pref_pct, pref_type>>

collectVars == <<collect_pc, collect_tasks, processed>>

monitorVars == <<monitor_running, monitor_loops, last_alerts, monitor_checkers>>

statsVars == <<total_rate_limited, stats_pc>>

resolveVars == <<resolve_name, resolve_symbol, resolve_list, resolve_pc,
                 resolve_result>>

trackVars == <<suppressed, run_suppressed>>

vars == <<rlVars, alertVars, schedVars, clientVars, prefVars, collectVars,
          monitorVars, statsVars, resolveVars, trackVars>>

(***************************************************************************)
(* RateLimiter                                                              *)
(***************************************************************************)
RateLimiterInit ==
    /\ call_times = <<>>
    /\ total_calls = 0
    /\ lock_holder = NoCaller
    /\ lock_waiters = <<>>
    /\ rl_pc = [c \in Callers |-> "idle"]
    /\ sleep_left = [c \in Callers |-> 0]
    /\ grants = <<>>

RECURSIVE DropExpired(_)
\* while self._call_times and self._call_times[0] < cutoff: popleft()
\* (t < now - period  <=>  age > period)
DropExpired(times) ==
    IF times # <<>> /\ Head(times) > Period
    THEN DropExpired(Tail(times))
    ELSE times

\* Variant, for sensitivity: the limit test off by one: `>` for `>=`.
AtLimitOffByOne(times) == Len(times) > MaxCalls

\* if len(self._call_times) >= self.max_calls
AtLimit(times) == Len(times) >= MaxCalls

\* sleep_time = period_seconds - (now - call_times[0]) + 0.1
SleepTime(times) == Period - Head(times) + Epsilon

\* The body of `async with self._lock` up to its first suspension or its end,
\* run by caller c that has just been given the lock.
LockedBody(c) ==
    LET pruned == DropExpired(call_times) IN
    IF AtLimit(pruned)
    THEN \* await asyncio.sleep(sleep_time), the lock stays held
         /\ call_times' = pruned
         /\ lock_holder' = c
         /\ rl_pc' = [rl_pc EXCEPT ![c] = "sleeping"]
         /\ sleep_left' = [sleep_left EXCEPT ![c] = SleepTime(pruned)]
         /\ UNCHANGED <<total_calls, grants>>
    ELSE \* record the call; leaving the with-block releases the lock
         /\ call_times' = Append(pruned, 0)
         /\ total_calls' = total_calls + 1
         /\ grants' = Append(grants, 0)
         /\ lock_holder' = NoCaller
         /\ rl_pc' = [rl_pc EXCEPT ![c] = "done"]
         /\ UNCHANGED sleep_left

\* asyncio.Lock.acquire() returns at once when the lock is free and nobody is
\* parked in front.
LockFree == lock_holder = NoCaller /\ lock_waiters = <<>>

\* `async with self._lock` is entered: either at once by a caller that finds
\* the lock free, or by the first parked acquirer after a release().  No
\* with-block that ends is ever suspended, so a release() never finds a parked
\* acquirer: the lock is only ever taken through the first branch.
AcquireLock(c) ==
    /\ \/ /\ rl_pc[c] = "idle"
          /\ LockFree
          /\ UNCHANGED lock_waiters
       \/ /\ rl_pc[c] \in {"lock_wait", "relock"}
          /\ lock_holder = NoCaller
          /\ lock_waiters # <<>> /\ Head(lock_waiters) = c
          /\ lock_waiters' = Tail(lock_waiters)
    /\ LockedBody(c)
    /\ UNCHANGED <<alertVars, schedVars, clientVars, prefVars, collectVars,
                 monitorVars, statsVars,
                 resolveVars, trackVars>>

\* acquire() called while the lock is taken: the caller parks in the FIFO.
AcquirePark(c) ==
    /\ rl_pc[c] = "idle"
    /\ ~LockFree
    /\ lock_waiters' = Append(lock_waiters, c)
    /\ rl_pc' = [rl_pc EXCEPT ![c] = "lock_wait"]
    /\ UNCHANGED <<call_times, total_calls, lock_holder, sleep_left, grants>>
    /\ UNCHANGED <<alertVars, schedVars, clientVars, prefVars, collectVars,
                 monitorVars, statsVars,
                 resolveVars, trackVars>>

\* The sleep is over: `return await self.acquire()` runs inside the still open
\* with-block, so the inner `async with self._lock` finds the lock taken by
\* this caller's own outer frame and parks behind it.
SleepDone(c) ==
    /\ rl_pc[c] = "sleeping"
    /\ sleep_left[c] = 0
    /\ lock_holder = c
    /\ lock_waiters' = Append(lock_waiters, c)
    /\ rl_pc' = [rl_pc EXCEPT ![c] = "relock"]
    /\ UNCHANGED <<call_times, total_calls, lock_holder, sleep_left, grants>>
    /\ UNCHANGED <<alertVars, schedVars, clientVars, prefVars, collectVars,
                 monitorVars, statsVars,
                 resolveVars, trackVars>>

IncAge(a) == Min(a + 1, Period + 1)
InWindow(a) == a <= Period

\* One tick of the clock (time.time() advances).
RLTick ==
    /\ call_times' = [i \in 1..Len(call_times) |-> IncAge(call_times[i])]
    /\ grants' = SelectSeq([i \in 1..Len(grants) |-> IncAge(grants[i])], InWindow)
    /\ sleep_left' = [c \in Callers |-> Max(sleep_left[c] - 1, 0)]
    /\ UNCHANGED <<total_calls, lock_holder, lock_waiters, rl_pc>>
    /\ UNCHANGED <<alertVars, schedVars, clientVars, prefVars, collectVars,
                 monitorVars, statsVars,
                 resolveVars, trackVars>>

(***************************************************************************)
(* SubscriberAlertService and the send-alerts-to-all endpoint               *)
(***************************************************************************)
Subscribers == {"s1", "s2"}
\* Protocol rows.
NumProtocols == 3
Protocols == 1..NumProtocols
\* The protocol whose is_active is False in the scheduler's database.
InactiveProtocol == 3

\* self.alert_cooldown = timedelta(hours=1), in ticks of one hour.
alert_cooldown == 1

\* last_alert_sent IS NULL
NoTime == 0 - 1

\* Ages are kept up to the first value past the cooldown.
AlertAge(a) == IF a = NoTime THEN NoTime ELSE Min(a + 1, alert_cooldown + 1)

\* risk_score * 100 of a RiskScore row.
RiskValues == {30, 80}

\* EmailSubscriber rows the dispatch may find.
Profiles ==
    { [is_active |-> TRUE, is_verified |-> TRUE,
       high_risk_threshold |-> 70, medium_risk_threshold |-> 40,
       notify_on_high |-> TRUE, notify_on_medium |-> TRUE],
      [is_active |-> TRUE, is_verified |-> FALSE,
       high_risk_threshold |-> 70, medium_risk_threshold |-> 40,
       notify_on_high |-> TRUE, notify_on_medium |-> TRUE] }

\* EmailSubscriber rows with the default thresholds: unsubscribed or not,
\* verified or not.
EligProfiles ==
    [is_active : BOOLEAN, is_verified : BOOLEAN,
     high_risk_threshold : {70}, medium_risk_threshold : {40},
     notify_on_high : {TRUE}, notify_on_medium : {TRUE}]

\* send_risk_alert / send_batch_alerts: True, False, or an exception.
Outcomes == {"ok", "fail", "raise"}

\* No statistics: no run has just returned.
NoRunStats == [none |-> TRUE]

NoRun ==
    /\ run_kind = "none"
    /\ run_prev = [s \in Subscribers |-> NoTime]
    /\ run_calls = [s \in Subscribers |-> <<>>]
    /\ run_outcome = [s \in Subscribers |-> "none"]
    /\ run_notified = [s \in Subscribers |-> NoTime]
    /\ run_risk_read = [p \in Protocols |-> 0]
    /\ run_stats = NoRunStats

\* The database as the dispatch finds it: the subscribers' preferences, one
\* RiskScore row per protocol, nobody alerted yet.
AlertInit ==
    /\ subscribers \in [Subscribers -> Profiles]
    /\ risk_rows \in [Protocols -> {<<v>> : v \in RiskValues}]
    /\ protocol_active = [p \in Protocols |-> TRUE]
    /\ last_alert_sent = [s \in Subscribers |-> NoTime]
    /\ last_notified = last_alert_sent
    /\ NoRun

\* The alert tables as the other components leave them.
AlertIdle ==
    /\ subscribers = [s \in Subscribers |-> CHOOSE p \in Profiles :
                          p.is_verified /\ p.notify_on_medium]
    /\ risk_rows = [p \in Protocols |-> <<>>]
    /\ protocol_active = [p \in Protocols |-> TRUE]
    /\ last_alert_sent = [s \in Subscribers |-> NoTime]
    /\ last_notified = last_alert_sent
    /\ NoRun

\* Variant, for sensitivity: the subscribers read without the is_verified
\* filter.
ActiveOnly == {s \in Subscribers : subscribers[s].is_active}

\* .where(is_active == True).where(is_verified == True)
ActiveVerified == {s \in Subscribers :
                      subscribers[s].is_active /\ subscribers[s].is_verified}

\* db.query(Protocol).filter(Protocol.is_active == True)
ActiveProtocols == {p \in Protocols : protocol_active[p]}

\* .order_by(desc(RiskScore.timestamp)).limit(1)
HasRisk(p) == risk_rows[p] # <<>>

\* Variant, for sensitivity: the oldest row read instead of the newest.
OldestRiskIndex(p) == 1

LatestRiskIndex(p) == Len(risk_rows[p])
LatestRisk(p) == risk_rows[p][LatestRiskIndex(p)]

\* Variant, for sensitivity: no medium alert once the high threshold is reached.
AlertTypeNoFallThrough(sub, pct) ==
    IF pct >= sub.high_risk_threshold
    THEN (IF sub.notify_on_high THEN "high" ELSE "none")
    ELSE IF pct >= sub.medium_risk_threshold /\ sub.notify_on_medium
         THEN "medium"
         ELSE "none"

\* The alert type check_and_send_alerts derives for one subscriber and one
\* risk percentage.
AlertType(sub, pct) ==
    IF pct >= sub.high_risk_threshold /\ sub.notify_on_high THEN "high"
    ELSE IF pct >= sub.medium_risk_threshold /\ sub.notify_on_medium
         THEN "medium"
         ELSE "none"

\* Variant, for sensitivity: the candidates skipped for the cooldown are kept
\* and listed with those of the run.
AlertsForSubscriberCarried(s) ==
    {p \in ActiveProtocols :
        HasRisk(p) /\ AlertType(subscribers[s], LatestRisk(p)) # "none"}
    \cup suppressed[s]

\* alerts_for_subscriber, as the set of protocols it lists.
AlertsForSubscriber(s) ==
    {p \in ActiveProtocols :
        HasRisk(p) /\ AlertType(subscribers[s], LatestRisk(p)) # "none"}

\* Variant, for sensitivity: the cooldown boundary let through: `>=` for `>`.
ShouldSendAlertAtBoundary(s) ==
    \/ last_alert_sent[s] = NoTime
    \/ last_alert_sent[s] >= alert_cooldown

\* Variant, for sensitivity: a subscriber alerted once is never alerted again.
ShouldSendAlertOnce(s) == last_alert_sent[s] = NoTime

\* _should_send_alert
ShouldSendAlert(s) ==
    \/ last_alert_sent[s] = NoTime
    \/ last_alert_sent[s] > alert_cooldown

RECURSIVE OnePerAlert(_, _)
\* Variant, for sensitivity: one send_risk_alert call per alert of the list.
OnePerAlert(alerts, p) ==
    IF p > NumProtocols THEN <<>>
    ELSE (IF p \in alerts THEN <<[kind |-> "single", protocols |-> {p}]>>
          ELSE <<>>) \o OnePerAlert(alerts, p + 1)

SendEachAlert(alerts) == OnePerAlert(alerts, 1)

\* _send_alerts_to_subscriber: the calls it makes on the email service.
SendAlertsToSubscriber(alerts) ==
    IF Cardinality(alerts) = 1
    THEN <<[kind |-> "single", protocols |-> alerts]>>
    ELSE <<[kind |-> "batch", protocols |-> alerts]>>

\* Variant, for sensitivity: last_alert_sent not written after the send.
LastAlertSentKept(s, outcome) == last_alert_sent[s]

\* check_and_send_alerts, after _send_alerts_to_subscriber has returned:
\* subscriber.last_alert_sent = datetime.utcnow(), whatever the send did.
LastAlertSentAfterSend(s, outcome) == 0

\* The history of delivered notifications after a run in which `delivered`
\* are the subscribers whose send returned True.
Notify(delivered) ==
    /\ run_notified' = last_notified
    /\ last_notified' = [s \in Subscribers |->
                            IF s \in delivered THEN 0 ELSE last_notified[s]]

\* The order in which the query returns the EmailSubscriber rows.
SubscriberRank(s) == IF s = "s1" THEN 1 ELSE 2

\* Variant, for sensitivity: _send_alerts_to_subscriber without its
\* try/except: an exception of the email service leaves the loop.
ReachedUntilRaise(due, out) ==
    {s \in due : \A r \in due :
                    SubscriberRank(r) < SubscriberRank(s) => out[r] # "raise"}

\* The subscribers the loop of check_and_send_alerts comes to, of those that
\* are due a send: _send_alerts_to_subscriber logs a False result and catches
\* every exception of the email service, so the loop goes on to the next one.
Reached(due, out) == due

RECURSIVE TotalAlerts(_)
\* The sum of len(alerts_for_subscriber) over the subscribers subs.
TotalAlerts(subs) ==
    IF subs = {} THEN 0
    ELSE LET s == CHOOSE x \in subs : TRUE
         IN  Cardinality(AlertsForSubscriber(s)) + TotalAlerts(subs \ {s})

\* Variant, for sensitivity: only the alerts of the sends that returned True
\* are counted as sent.
AlertsSentDelivered(sending, out) ==
    TotalAlerts({s \in sending : out[s] = "ok"})

\* stats["alerts_sent"] += len(alerts_for_subscriber), after every call of
\* _send_alerts_to_subscriber, which returns nothing.
AlertsSent(sending, out) == TotalAlerts(sending)

\* The dictionary check_and_send_alerts returns: the short one when no
\* subscriber is active and verified, else the counters of the loop
\* (subscribers_notified is the size of the set of e-mail addresses).
CheckStats(sending, out) ==
    IF ActiveVerified = {}
    THEN [total_subscribers |-> 0, alerts_sent |-> 0]
    ELSE [total_subscribers |-> Cardinality(ActiveVerified),
          alerts_sent |-> AlertsSent(sending, out),
          alerts_skipped_cooldown |->
              TotalAlerts({s \in ActiveVerified :
                              AlertsForSubscriber(s) # {} /\ ~ShouldSendAlert(s)}),
          subscribers_notified |-> Cardinality(sending)]

\* alert_stats.get(key, 0): a key the dictionary does not hold reads as 0.
StatsGet(stats, key) == IF key \in DOMAIN stats THEN stats[key] ELSE 0

\* One run of check_and_send_alerts.
CheckAndSendAlertsRun ==
    LET due == {s \in ActiveVerified :
                   AlertsForSubscriber(s) # {} /\ ShouldSendAlert(s)}
    IN  \E out \in [due -> Outcomes] :
          LET sending == Reached(due, out) IN
            /\ run_kind' = "check"
            /\ run_prev' = last_alert_sent
            /\ run_calls' = [s \in Subscribers |->
                                IF s \in sending
                                THEN SendAlertsToSubscriber(AlertsForSubscriber(s))
                                ELSE <<>>]
            /\ run_outcome' = [s \in Subscribers |->
                                  IF s \in sending THEN out[s] ELSE "none"]
            /\ last_alert_sent' = [s \in Subscribers |->
                                      IF s \in sending
                                      THEN LastAlertSentAfterSend(s, out[s])
                                      ELSE last_alert_sent[s]]
            /\ Notify({s \in sending : out[s] = "ok"})
            /\ run_risk_read' = [p \in Protocols |->
                                    IF /\ ActiveVerified # {}
                                       /\ p \in ActiveProtocols
                                       /\ HasRisk(p)
                                    THEN LatestRiskIndex(p) ELSE 0]
            /\ run_stats' = CheckStats(sending, out)
            /\ UNCHANGED <<subscribers, protocol_active>>

\* check_and_send_alerts called outside a cycle.
CheckAndSendAlerts ==
    /\ CheckAndSendAlertsRun
    /\ UNCHANGED risk_rows
    /\ UNCHANGED <<rlVars, schedVars, clientVars, prefVars, collectVars,
                 monitorVars, statsVars,
                 resolveVars, trackVars>>

\* risk_level as the scheduler stores it with a row.
RiskLevel(pct) ==
    IF pct >= 70 THEN "high" ELSE IF pct >= 40 THEN "medium" ELSE "low"

\* The alert type send_alerts_to_all_subscribers derives for a row.
SendAllAlertType(sub, pct) ==
    IF RiskLevel(pct) = "high" /\ sub.notify_on_high
       /\ pct >= sub.high_risk_threshold THEN "high"
    ELSE IF RiskLevel(pct) = "medium" /\ sub.notify_on_medium
            /\ pct >= sub.medium_risk_threshold THEN "medium"
         ELSE "none"

\* alerts_by_email[subscriber.email], over every row of the join.
SendAllAlerts(s) ==
    {p \in Protocols :
        \E i \in 1..Len(risk_rows[p]) :
            SendAllAlertType(subscribers[s], risk_rows[p][i]) # "none"}

\* One request to POST /send-alerts-to-all (the email service enabled).
SendAlertsToAllSubscribers ==
    LET sending == {s \in ActiveVerified : SendAllAlerts(s) # {}}
    IN  \E out \in [sending -> Outcomes] :
            /\ run_kind' = "send_all"
            /\ run_prev' = last_alert_sent
            /\ run_calls' = [s \in Subscribers |->
                                IF s \in sending
                                THEN <<[kind |-> "batch",
                                        protocols |-> SendAllAlerts(s)]>>
                                ELSE <<>>]
            /\ run_outcome' = [s \in Subscribers |->
                                  IF s \in sending THEN out[s] ELSE "none"]
            /\ last_alert_sent' = [s \in Subscribers |->
                                      IF s \in sending /\ out[s] = "ok"
                                      THEN 0
                                      ELSE last_alert_sent[s]]
            /\ Notify({s \in sending : out[s] = "ok"})
            /\ run_risk_read' = [p \in Protocols |-> 0]
            /\ run_stats' = NoRunStats
            /\ UNCHANGED <<subscribers, risk_rows, protocol_active>>
            /\ UNCHANGED <<rlVars, schedVars, clientVars, prefVars, collectVars,
                 monitorVars, statsVars,
                 resolveVars, trackVars>>

\* One hour passes.
AlertTick ==
    /\ last_alert_sent' = [s \in Subscribers |-> AlertAge(last_alert_sent[s])]
    /\ last_notified' = [s \in Subscribers |-> AlertAge(last_notified[s])]
    /\ run_kind' = "none"
    /\ run_prev' = [s \in Subscribers |-> NoTime]
    /\ run_calls' = [s \in Subscribers |-> <<>>]
    /\ run_outcome' = [s \in Subscribers |-> "none"]
    /\ run_notified' = [s \in Subscribers |-> NoTime]
    /\ run_risk_read' = [p \in Protocols |-> 0]
    /\ run_stats' = NoRunStats
    /\ UNCHANGED <<subscribers, risk_rows, protocol_active>>
    /\ UNCHANGED <<rlVars, schedVars, clientVars, prefVars, collectVars,
                 monitorVars, statsVars,
                 resolveVars, trackVars>>

(***************************************************************************)
(* AutomatedScheduler, its tasks on the event loop, and the cycle           *)
(***************************************************************************)
\* _run_data_update_cycle tasks created in one behaviour.
MaxCycles == 3

TaskIds == 1..MaxCycles
NoTask == 0

\* IntervalTrigger(minutes=random.randint(60, 120)): the two ends of the range.
min_interval == 60
max_interval == 120
Intervals == {min_interval, max_interval}
NoInterval == 0

\* A task: not created yet, created but not yet run, at one of the three
\* steps of the cycle, or over; origin tells who created the task.
FreeTask == [pc |-> "none", origin |-> "none"]
DoneTask == [pc |-> "done", origin |-> "none"]
CycleSteps == {"metrics", "risk", "alerts"}

NoStats == [updated_count |-> 0, error |-> FALSE]
NoLog == [op |-> "none", minutes |-> NoInterval]
NoRows == [p \in Protocols |-> 0]

SchedulerInit ==
    /\ is_running = FALSE
    /\ update_count = 0
    /\ last_update_time = NoTask
    /\ timer_interval = NoInterval
    /\ job_registered = FALSE
    /\ tasks = [t \in TaskIds |-> FreeTask]
    /\ loop_owner = NoTask
    /\ tasks_created = 0
    /\ metrics_stats = NoStats
    /\ refresh_failed = {}
    /\ risk_appended = NoRows
    /\ sched_log = NoLog

\* The ProtocolMetric table: every protocol seeded with one row, or the
\* first protocol still without any.
MetricsInit ==
    /\ metric_count \in {[p \in Protocols |-> 1],
                         [p \in Protocols |-> IF p = 1 THEN 0 ELSE 1]}
    /\ refresh_prev = metric_count

\* The ProtocolMetric table as the other components leave it.
MetricsIdle ==
    /\ metric_count = [p \in Protocols |-> 1]
    /\ refresh_prev = metric_count

\* The number of cycles between their entry and their exit.
CyclesExecuting == Cardinality({t \in TaskIds : tasks[t].pc \in CycleSteps})

\* Variant, for sensitivity: the coroutine is never handed to the event loop.
CreateTaskDropped(origin) ==
    /\ tasks_created < MaxCycles
    /\ UNCHANGED <<tasks, tasks_created>>

\* asyncio.create_task(self._run_data_update_cycle()): the task is created
\* and runs when the event loop next picks it.
CreateTask(origin) ==
    /\ tasks_created < MaxCycles
    /\ tasks_created' = tasks_created + 1
    /\ tasks' = [tasks EXCEPT ![tasks_created + 1] =
                                 [pc |-> "pending", origin |-> origin]]

\* Variant, for sensitivity: start() without its early return.
AlreadyRunningIgnored == FALSE

\* if self.is_running: return
AlreadyRunning == is_running

\* AutomatedScheduler.start()
Start ==
    /\ loop_owner = NoTask
    /\ IF AlreadyRunning
       THEN /\ sched_log' = [op |-> "start_noop", minutes |-> NoInterval]
            /\ UNCHANGED <<is_running, job_registered, timer_interval, tasks,
                           tasks_created>>
       ELSE /\ job_registered' = TRUE
            /\ timer_interval' \in Intervals
            /\ is_running' = TRUE
            /\ CreateTask("start")
            /\ sched_log' = [op |-> "start", minutes |-> NoInterval]
    /\ UNCHANGED <<update_count, last_update_time, loop_owner, metric_count,
                   metrics_stats, refresh_failed, refresh_prev, risk_appended>>
    /\ UNCHANGED <<rlVars, alertVars, clientVars, prefVars, collectVars,
                 monitorVars, statsVars,
                 resolveVars, trackVars>>

\* AutomatedScheduler.stop(): scheduler.shutdown() drops the job's timer and
\* cancels the job instances the executor has not finished; tasks made with
\* asyncio.create_task are not touched.
Stop ==
    /\ loop_owner = NoTask
    /\ is_running
    /\ job_registered' = FALSE
    /\ timer_interval' = NoInterval
    /\ is_running' = FALSE
    /\ tasks' = [t \in TaskIds |->
                    IF tasks[t].origin = "timer" THEN DoneTask ELSE tasks[t]]
    /\ sched_log' = NoLog
    /\ UNCHANGED <<update_count, last_update_time, loop_owner, tasks_created,
                   metric_count, metrics_stats, refresh_failed, refresh_prev,
                   risk_appended>>
    /\ UNCHANGED <<rlVars, alertVars, clientVars, prefVars, collectVars,
                 monitorVars, statsVars,
                 resolveVars, trackVars>>

\* Whether app/api/v1/monitoring.py can be imported.  The `return {` that
\* ends the try-body of force_immediate_update (line 91) is indented less
\* than the body and stands before the except clauses, which Python rejects
\* when it compiles the module ("expected 'except' or 'finally' block"):
\* the import in app/api/router.py raises SyntaxError and the routes of the
\* module are never registered.
MonitoringModuleLoads == FALSE

\* POST /monitoring/scheduler/force-update: served by force_immediate_update
\* if its module loads (503 unless scheduler.is_running, else
\* asyncio.create_task(scheduler._run_data_update_cycle()) and a success
\* answer), and by nothing otherwise.
ForceImmediateUpdate ==
    /\ loop_owner = NoTask
    /\ IF ~MonitoringModuleLoads
       THEN /\ sched_log' = [op |-> "force_unserved", minutes |-> NoInterval]
            /\ UNCHANGED <<tasks, tasks_created>>
       ELSE IF ~is_running
            THEN /\ sched_log' = [op |-> "force_503", minutes |-> NoInterval]
                 /\ UNCHANGED <<tasks, tasks_created>>
            ELSE /\ CreateTask("force")
                 /\ sched_log' = [op |-> "force_accepted",
                                  minutes |-> NoInterval]
    /\ UNCHANGED <<is_running, update_count, last_update_time, timer_interval,
                   job_registered, loop_owner, metric_count, metrics_stats,
                   refresh_failed, refresh_prev, risk_appended>>
    /\ UNCHANGED <<rlVars, alertVars, clientVars, prefVars, collectVars,
                 monitorVars, statsVars,
                 resolveVars, trackVars>>

\* The interval trigger fires: the job is submitted unless an instance of it
\* is still running (max_instances=1).
TimerTick ==
    /\ loop_owner = NoTask
    /\ job_registered
    /\ \A t \in TaskIds : tasks[t].origin # "timer"
    /\ CreateTask("timer")
    /\ sched_log' = NoLog
    /\ UNCHANGED <<is_running, update_count, last_update_time, timer_interval,
                   job_registered, loop_owner, metric_count, metrics_stats,
                   refresh_failed, refresh_prev, risk_appended>>
    /\ UNCHANGED <<rlVars, alertVars, clientVars, prefVars, collectVars,
                 monitorVars, statsVars,
                 resolveVars, trackVars>>

\* Variant, for sensitivity: the awaited steps suspend, as they would if they awaited I/O.
AwaitYieldsOnIO == TRUE

\* Whether `await self._update_protocol_metrics()` and the two awaits after
\* it hand control back to the event loop: the awaited coroutines contain no
\* await themselves (synchronous database and SMTP calls), so they run to
\* their end at once.
AwaitYields == FALSE

\* The event loop executes task t: either t is in the middle of a turn, or
\* the loop is free to pick it.
Runs(t) == loop_owner = t \/ loop_owner = NoTask
AfterAwait(t) == IF AwaitYields THEN NoTask ELSE t

\* The task starts: _run_data_update_cycle is entered.
CycleBegin(t) ==
    /\ tasks[t].pc = "pending"
    /\ loop_owner = NoTask
    /\ tasks' = [tasks EXCEPT ![t].pc = "metrics"]
    /\ loop_owner' = t
    /\ risk_appended' = NoRows
    /\ sched_log' = NoLog
    /\ UNCHANGED tasks_created
    /\ UNCHANGED <<is_running, update_count, last_update_time, timer_interval,
                   job_registered, metric_count, metrics_stats, refresh_failed,
                   refresh_prev>>
    /\ UNCHANGED <<rlVars, alertVars, clientVars, prefVars, collectVars,
                 monitorVars, statsVars,
                 resolveVars, trackVars>>

\* The rows _update_protocol_metrics adds: one per protocol that has a
\* latest metric.
Refreshed == {p \in ActiveProtocols : metric_count[p] > 0}

\* Variant, for sensitivity: a rollback that also discards the rows earlier
\* cycles committed for the protocols whose refresh raised.
UpdateProtocolMetricsRollbackAll(failed) ==
    IF failed = {}
    THEN /\ metric_count' = [p \in Protocols |->
                                IF p \in Refreshed
                                THEN metric_count[p] + 1 ELSE metric_count[p]]
         /\ metrics_stats' = [updated_count |-> Cardinality(Refreshed),
                              error |-> FALSE]
    ELSE /\ metric_count' = [p \in Protocols |->
                                IF p \in failed THEN 0 ELSE metric_count[p]]
         /\ metrics_stats' = [updated_count |-> 0, error |-> TRUE]

\* _update_protocol_metrics: the loop over the protocols inside one
\* try/except; an exception for any protocol rolls the session back.
UpdateProtocolMetrics(failed) ==
    IF failed = {}
    THEN /\ metric_count' = [p \in Protocols |->
                                IF p \in Refreshed
                                THEN metric_count[p] + 1 ELSE metric_count[p]]
         /\ metrics_stats' = [updated_count |-> Cardinality(Refreshed),
                              error |-> FALSE]
    ELSE /\ metric_count' = metric_count
         /\ metrics_stats' = [updated_count |-> 0, error |-> TRUE]

\* Step 1 of the cycle.
CycleMetrics(t) ==
    /\ tasks[t].pc = "metrics"
    /\ Runs(t)
    /\ \E failed \in SUBSET Protocols :
          /\ UpdateProtocolMetrics(failed)
          /\ refresh_failed' = failed
    /\ refresh_prev' = metric_count
    /\ tasks' = [tasks EXCEPT ![t].pc = "risk"]
    /\ loop_owner' = AfterAwait(t)
    /\ sched_log' = NoLog
    /\ UNCHANGED <<is_running, update_count, last_update_time, timer_interval,
                   job_registered, tasks_created, risk_appended>>
    /\ UNCHANGED <<rlVars, alertVars, clientVars, prefVars, collectVars,
                 monitorVars, statsVars,
                 resolveVars, trackVars>>

\* _recalculate_risk_scores: a new RiskScore row for every protocol that has
\* one (the variation of at most 1.5 % keeps the score in its band); an
\* exception inside the loop rolls the session back.
RecalculateRiskScores(failed) ==
    IF failed
    THEN /\ risk_rows' = risk_rows
         /\ risk_appended' = NoRows
    ELSE /\ risk_rows' = [p \in Protocols |->
                             IF p \in ActiveProtocols /\ HasRisk(p)
                             THEN Append(risk_rows[p], LatestRisk(p))
                             ELSE risk_rows[p]]
         /\ risk_appended' = [p \in Protocols |->
                                 IF p \in ActiveProtocols /\ HasRisk(p)
                                 THEN Len(risk_rows[p]) + 1
                                 ELSE 0]

\* Step 2 of the cycle (metrics_stats has been logged and is not read
\* again).
CycleRisk(t) ==
    /\ tasks[t].pc = "risk"
    /\ Runs(t)
    /\ \E failed \in BOOLEAN : RecalculateRiskScores(failed)
    /\ tasks' = [tasks EXCEPT ![t].pc = "alerts"]
    /\ loop_owner' = AfterAwait(t)
    /\ metrics_stats' = NoStats
    /\ refresh_failed' = {}
    /\ refresh_prev' = metric_count
    /\ sched_log' = NoLog
    /\ UNCHANGED <<is_running, update_count, last_update_time, timer_interval,
                   job_registered, tasks_created, metric_count>>
    /\ UNCHANGED <<subscribers, last_alert_sent, protocol_active, run_kind,
                   run_prev, run_calls, run_outcome, run_notified,
                   run_risk_read, run_stats, last_notified>>
    /\ UNCHANGED <<rlVars, clientVars, prefVars, collectVars,
                 monitorVars, statsVars,
                 resolveVars, trackVars>>

\* Variant, for sensitivity: the cycle without its `except Exception`.
CycleExitReraises(fault) ==
    IF fault THEN [pc |-> "raised", origin |-> "none"] ELSE DoneTask

\* How the task of a cycle ends: the try/except around the three steps logs
\* whatever was raised, and the coroutine returns.
CycleExit(fault) == DoneTask

\* Variant, for sensitivity: the counter of completed cycles left as it is.
CompletedCountKept == update_count

\* self.update_count += 1, after the three steps have returned.
CompletedCount == update_count + 1

\* Step 3 of the cycle and its end: the alerts are checked, the statistics
\* updated, the next interval drawn for the log, and the task is over.
CycleAlerts(t) ==
    /\ tasks[t].pc = "alerts"
    /\ Runs(t)
    /\ CheckAndSendAlertsRun
    /\ last_update_time' = t
    /\ update_count' = CompletedCount
    /\ \E next_run_minutes \in Intervals :
          sched_log' = [op |-> "cycle_complete", minutes |-> next_run_minutes]
    /\ tasks' = [tasks EXCEPT ![t] = CycleExit(FALSE)]
    /\ loop_owner' = NoTask
    /\ UNCHANGED <<is_running, timer_interval, job_registered, tasks_created,
                   metric_count, metrics_stats, refresh_failed, refresh_prev,
                   risk_appended>>
    /\ UNCHANGED risk_rows
    /\ UNCHANGED <<rlVars, clientVars, prefVars, collectVars,
                 monitorVars, statsVars,
                 resolveVars, trackVars>>

\* SessionLocal() at the top of step 1 or step 2, or db.rollback() in their
\* handlers, raises: the exception leaves the step with nothing committed
\* and is caught at the end of the cycle; the statistics are not updated.
CycleFault(t) ==
    /\ tasks[t].pc \in {"metrics", "risk"}
    /\ Runs(t)
    /\ tasks' = [tasks EXCEPT ![t] = CycleExit(TRUE)]
    /\ loop_owner' = NoTask
    /\ metrics_stats' = NoStats
    /\ refresh_failed' = {}
    /\ refresh_prev' = metric_count
    /\ sched_log' = [op |-> "cycle_fault", minutes |-> NoInterval]
    /\ UNCHANGED <<is_running, update_count, last_update_time, timer_interval,
                   job_registered, tasks_created, metric_count, risk_appended>>
    /\ UNCHANGED <<rlVars, alertVars, clientVars, prefVars, collectVars,
                 monitorVars, statsVars,
                 resolveVars, trackVars>>

(***************************************************************************)
(* The retrying wrappers: _RetryingClient.get_json under                    *)
(* CoinGeckoClient.fetch_market_snapshot, and                               *)
(* RateLimiter.execute_with_backoff                                         *)
(***************************************************************************)
\* max_retries: the attempts one call may make, scaled down.
MaxRetries == 3
\* max_backoff of the RateLimiter, scaled down so that the cap is reached.
MaxBackoff == 5

\* backoff_factor of the RateLimiter.
backoff_factor == 2
\* backoff_base of the _RetryingClient (0.5 s), the unit of get_json's delays.
backoff_base == 1
\* min(retry_after, 10): ten seconds in units of backoff_base.
RetryAfterCap == 20
\* Retry-After headers of a 429 answer, in units of backoff_base: absent (or
\* "0"), one second, twenty seconds.
RetryAfters == {0, 2, 40}

\* The coroutine that makes the call, as a caller of the RateLimiter.
ClientCaller == CHOOSE c \in Callers : TRUE

\* What one HTTP request of get_json can end in: a 2xx answer, a 429, a
\* timeout, transport error or 5xx ("transient"), a 4xx other than 429
\* ("client_error"), or an exception that is not an httpx error ("other").
Responses ==
    {[kind |-> "ok", retry_after |-> 0],
     [kind |-> "transient", retry_after |-> 0],
     [kind |-> "client_error", retry_after |-> 0],
     [kind |-> "other", retry_after |-> 0]}
    \cup {[kind |-> "rate_limited", retry_after |-> ra] : ra \in RetryAfters}

\* What one call of the wrapped function can end in: it returns, raises an
\* error whose message names the rate limit, or raises another error (a
\* timeout or 5xx, a 4xx, anything else).
FuncOutcomes == {"ok", "rate_limited", "transient", "client_error", "other"}

\* except (httpx.HTTPStatusError, httpx.TransportError): raise_for_status()
\* raises HTTPStatusError for every 4xx and 5xx answer.
CaughtByGetJson == {"transient", "client_error"}

ClientIdle ==
    /\ call_op = "none"
    /\ call_pc = "idle"
    /\ attempt = 0
    /\ last_exc = "none"
    /\ call_log = <<>>
    /\ requests_sent = 0

\* The call is over: it returned a result, returned None, or raised.
CallOver == call_pc \in {"returned", "returned_none", "raised"}

\* fetch_market_snapshot(asset_id) is called.
FetchMarketSnapshot ==
    /\ call_pc = "idle"
    /\ call_op' = "fetch"
    /\ call_pc' = "acquire"
    /\ UNCHANGED <<attempt, last_exc, call_log, requests_sent>>
    /\ UNCHANGED <<rlVars, alertVars, schedVars, prefVars, collectVars,
                 monitorVars, statsVars,
                 resolveVars, trackVars>>

\* execute_with_backoff(func) is called: retry_count = 0, last_error = None.
ExecuteWithBackoff ==
    /\ call_pc = "idle"
    /\ call_op' = "ewb"
    /\ call_pc' = "acquire"
    /\ UNCHANGED <<attempt, last_exc, call_log, requests_sent>>
    /\ UNCHANGED <<rlVars, alertVars, schedVars, prefVars, collectVars,
                 monitorVars, statsVars,
                 resolveVars, trackVars>>

\* await self._rate_limiter.acquire() / await self.acquire(): the call goes
\* on when the grant is recorded; a caller that finds the window full sleeps
\* with the lock held and never gets out of its recursive acquire().
ClientAcquire ==
    /\ call_pc = "acquire"
    /\ LockFree
    /\ LockedBody(ClientCaller)
    /\ call_pc' = IF rl_pc'[ClientCaller] = "done" THEN "request" ELSE "blocked"
    /\ UNCHANGED lock_waiters
    /\ UNCHANGED <<call_op, attempt, last_exc, call_log, requests_sent>>
    /\ UNCHANGED <<alertVars, schedVars, prefVars, collectVars,
                 monitorVars, statsVars,
                 resolveVars, trackVars>>

\* get_json, on a 429: Retry-After when it is a non-zero number, else
\* backoff_base * 2 ** attempt; the sleep is min(retry_after, 10).
RetryAfterDelay(ra, n) ==
    Min(IF ra # 0 THEN ra ELSE backoff_base * (2 ^ n), RetryAfterCap)

\* get_json, on HTTPStatusError or TransportError.
TransientDelay(n) == backoff_base * (2 ^ n)

\* get_json after the for loop: `if last_exc: raise last_exc`, and the
\* function ends (returning None) otherwise.
AfterLoop(exc) == IF exc # "none" THEN "raised" ELSE "returned_none"

\* The place of get_json after an attempt that did not return.
NextAttempt(n, exc) == IF n < MaxRetries THEN "request" ELSE AfterLoop(exc)

\* One pass of get_json's loop: the request is sent and answered.
GetJsonAttempt ==
    /\ call_op = "fetch"
    /\ call_pc = "request"
    /\ requests_sent' = requests_sent + 1
    /\ \E resp \in Responses :
          CASE resp.kind = "ok" ->
                 /\ call_pc' = "returned"
                 /\ call_log' = Append(call_log,
                        [resp |-> "ok", provided |-> FALSE, retry_after |-> 0,
                         delay |-> 0])
                 /\ UNCHANGED <<attempt, last_exc>>
            [] resp.kind = "rate_limited" ->
                 /\ call_log' = Append(call_log,
                        [resp |-> "rate_limited",
                         provided |-> resp.retry_after # 0,
                         retry_after |-> resp.retry_after,
                         delay |-> RetryAfterDelay(resp.retry_after, attempt)])
                 /\ attempt' = attempt + 1
                 /\ call_pc' = NextAttempt(attempt + 1, last_exc)
                 /\ UNCHANGED last_exc
            [] resp.kind \in CaughtByGetJson ->
                 /\ last_exc' = resp.kind
                 /\ call_log' = Append(call_log,
                        [resp |-> resp.kind, provided |-> FALSE,
                         retry_after |-> 0,
                         delay |-> TransientDelay(attempt)])
                 /\ attempt' = attempt + 1
                 /\ call_pc' = NextAttempt(attempt + 1, resp.kind)
            [] resp.kind = "other" ->
                 /\ call_pc' = "raised"
                 /\ call_log' = Append(call_log,
                        [resp |-> "other", provided |-> FALSE,
                         retry_after |-> 0, delay |-> 0])
                 /\ UNCHANGED <<attempt, last_exc>>
    /\ UNCHANGED call_op
    /\ UNCHANGED <<rlVars, alertVars, schedVars, prefVars, collectVars,
                 monitorVars, statsVars,
                 resolveVars, trackVars>>

\* Variant, for sensitivity: the backoff without its cap.
BackoffUncapped(n) == backoff_factor ^ n

\* backoff_time = min(self.backoff_factor ** retry_count, self.max_backoff)
Backoff(n) == Min(backoff_factor ^ n, MaxBackoff)

\* One pass of execute_with_backoff's loop after the grant: func is called.
ExecuteAttempt ==
    /\ call_op = "ewb"
    /\ call_pc = "request"
    /\ requests_sent' = requests_sent + 1
    /\ \E outcome \in FuncOutcomes :
          CASE outcome = "ok" ->
                 /\ call_pc' = "returned"
                 /\ call_log' = Append(call_log,
                        [resp |-> "ok", provided |-> FALSE, retry_after |-> 0,
                         delay |-> 0])
                 /\ UNCHANGED <<attempt, last_exc, total_rate_limited>>
            [] outcome = "rate_limited" ->
                 /\ attempt' = attempt + 1
                 /\ call_log' = Append(call_log,
                        [resp |-> "rate_limited", provided |-> FALSE,
                         retry_after |-> 0,
                         delay |-> Backoff(attempt + 1)])
                 /\ last_exc' = "rate_limited"
                 /\ total_rate_limited' = total_rate_limited + 1
                 /\ call_pc' = IF attempt + 1 < MaxRetries
                                THEN "acquire" ELSE "raised"
            [] outcome \in {"transient", "client_error", "other"} ->
                 \* Non-rate-limit error, raise immediately
                 /\ call_pc' = "raised"
                 /\ call_log' = Append(call_log,
                        [resp |-> outcome, provided |-> FALSE,
                         retry_after |-> 0, delay |-> 0])
                 /\ UNCHANGED <<attempt, last_exc, total_rate_limited>>
    /\ UNCHANGED call_op
    /\ UNCHANGED <<rlVars, alertVars, schedVars, prefVars, collectVars,
                 monitorVars, stats_pc,
                 resolveVars, trackVars>>

(***************************************************************************)
(* The alert type as a function of the preferences and the risk             *)
(***************************************************************************)
\* Values of the two threshold columns and of risk_score * 100.
Thresholds == {40, 70}
RiskPercentages == {30, 40, 55, 70, 85}

PrefProfiles ==
    [is_active : {TRUE}, is_verified : {TRUE},
     high_risk_threshold : Thresholds, medium_risk_threshold : Thresholds,
     notify_on_high : BOOLEAN, notify_on_medium : BOOLEAN]

PrefIdle ==
    /\ pref_sub = CHOOSE p \in Profiles : p.is_verified
    /\ pref_pct = 0
    /\ pref_type = "unset"

PrefInit ==
    /\ pref_sub \in PrefProfiles
    /\ pref_pct \in RiskPercentages
    /\ pref_type = "unset"

\* The if / elif of check_and_send_alerts for one subscriber and one row.
DeriveAlertType ==
    /\ pref_type = "unset"
    /\ pref_type' = AlertType(pref_sub, pref_pct)
    /\ UNCHANGED <<pref_sub, pref_pct>>
    /\ UNCHANGED <<rlVars, alertVars, schedVars, clientVars, collectVars,
                   monitorVars, statsVars,
                 resolveVars, trackVars>>

(***************************************************************************)
(* DataCollectorService.collect over the CoinGecko client                   *)
(***************************************************************************)
\* Protocols one collect() call may select.
MaxSelected == 3

\* processed before collect() has returned.
NoCount == 0 - 1

NoCollectTask == [step |-> "none", result |-> FALSE]

CollectIdle ==
    /\ collect_pc = "idle"
    /\ collect_tasks = [c \in Callers |-> NoCollectTask]
    /\ processed = NoCount

\* The steps of _collect_from_cg that call the provider:
\* resolve_asset_id_from_contract, resolve_asset_id and fetch_market_snapshot
\* each await self._rate_limiter.acquire() before their request.
AcquiringSteps == {"contract", "resolve", "fetch"}

\* What get_json gives a step: a usable value, nothing usable (no id, an
\* empty list), or an exception.
StepOutcomes == {"value", "nothing", "raised"}

\* Where _collect_from_cg goes after a step: a contract lookup that gives no
\* id falls back to the search; a search without a match, a snapshot, and
\* any exception (caught by the try/except of the coroutine) end it.
AfterStep(step, outcome) ==
    CASE step = "contract" -> IF outcome = "value" THEN "fetch" ELSE "resolve"
      [] step = "resolve" -> IF outcome = "value" THEN "fetch" ELSE "over"
      [] step = "fetch" -> "over"

\* _collect_from_cg returns True only after a snapshot was stored.
StepResult(step, outcome) == step = "fetch" /\ outcome = "value"

\* The protocols the call selected.
Selected == {c \in Callers : collect_tasks[c].step # "none"}

\* collect("coingecko", protocol_ids): the protocols are read (with or
\* without a contract_address each); without any, collect returns 0;
\* otherwise one _collect_from_cg coroutine per protocol is handed to
\* asyncio.gather.
Collect ==
    /\ collect_pc = "idle"
    /\ \E n \in 0..Min(MaxSelected, NumCallers) :
       \E with_contract \in SUBSET (1..n) :
          IF n = 0
          THEN /\ collect_pc' = "returned"
               /\ processed' = 0
               /\ UNCHANGED collect_tasks
          ELSE /\ collect_pc' = "gathering"
               /\ collect_tasks' =
                     [c \in Callers |->
                         IF c > n THEN NoCollectTask
                         ELSE [step |-> IF c \in with_contract
                                        THEN "contract" ELSE "resolve",
                               result |-> FALSE]]
               /\ UNCHANGED processed
    /\ UNCHANGED <<rlVars, alertVars, schedVars, clientVars, prefVars,
                   monitorVars, statsVars,
                 resolveVars, trackVars>>

\* The coroutine of protocol c is inside `await self._rate_limiter.acquire()`.
CollectAcquire(c) ==
    /\ collect_pc = "gathering"
    /\ collect_tasks[c].step \in AcquiringSteps
    /\ (AcquireLock(c) \/ AcquirePark(c) \/ SleepDone(c))

\* The grant is recorded: the request of the step is sent through get_json
\* and answered, and the coroutine goes on to its next step.
CollectRequest(c) ==
    /\ collect_pc = "gathering"
    /\ collect_tasks[c].step \in AcquiringSteps
    /\ rl_pc[c] = "done"
    /\ \E outcome \in StepOutcomes :
          collect_tasks' =
              [collect_tasks EXCEPT ![c] =
                  [step |-> AfterStep(collect_tasks[c].step, outcome),
                   result |-> StepResult(collect_tasks[c].step, outcome)]]
    /\ rl_pc' = [rl_pc EXCEPT ![c] = "idle"]
    /\ UNCHANGED <<call_times, total_calls, lock_holder, lock_waiters,
                   sleep_left, grants>>
    /\ UNCHANGED <<collect_pc, processed>>
    /\ UNCHANGED <<alertVars, schedVars, clientVars, prefVars, monitorVars, statsVars,
                 resolveVars, trackVars>>

\* asyncio.gather returns when every coroutine has ended; processed counts
\* the results that are true.
CollectReturn ==
    /\ collect_pc = "gathering"
    /\ \A c \in Selected : collect_tasks[c].step = "over"
    /\ processed' = Cardinality({c \in Selected : collect_tasks[c].result})
    /\ collect_pc' = "returned"
    /\ UNCHANGED collect_tasks
    /\ UNCHANGED <<rlVars, alertVars, schedVars, clientVars, prefVars,
                   monitorVars, statsVars,
                 resolveVars, trackVars>>

(***************************************************************************)
(* RealtimeRiskMonitor                                                      *)
(***************************************************************************)
\* start_monitoring() coroutines created in one behaviour.
MaxLoops == 3
LoopIds == 1..MaxLoops

\* self.high_risk_threshold, self.medium_risk_threshold, self.notify_high,
\* self.notify_medium as __init__ sets them.
monitor_high_risk_threshold == 70
monitor_medium_risk_threshold == 40
notify_high == TRUE
notify_medium == FALSE

\* self.alert_cooldown = timedelta(hours=1), in ticks of one hour.
monitor_alert_cooldown == 1

MonitorAge(a) ==
    IF a = NoTime THEN NoTime ELSE Min(a + 1, monitor_alert_cooldown + 1)

MonitorIdle ==
    /\ monitor_running = FALSE
    /\ monitor_loops = [k \in LoopIds |-> "none"]
    /\ last_alerts = [p \in Protocols |-> NoTime]
    /\ monitor_checkers = {}

\* The if / elif of _check_protocols.
MonitorAlertType(pct) ==
    IF pct >= monitor_high_risk_threshold /\ notify_high THEN "high"
    ELSE IF pct >= monitor_medium_risk_threshold /\ notify_medium
         THEN "medium"
         ELSE "none"

\* RealtimeRiskMonitor._should_send_alert(protocol_id)
MonitorShouldSendAlert(p) ==
    \/ last_alerts[p] = NoTime
    \/ last_alerts[p] > monitor_alert_cooldown

\* _check_protocols: the active protocols in turn, up to the one at which an
\* exception (caught and logged inside) ends the check; an alert is sent and
\* last_alerts written for each that is at or above an enabled threshold and
\* out of its cooldown.
CheckProtocols(upto) ==
    last_alerts' = [p \in Protocols |->
                       IF /\ p <= upto
                          /\ p \in ActiveProtocols
                          /\ HasRisk(p)
                          /\ MonitorAlertType(LatestRisk(p)) # "none"
                          /\ MonitorShouldSendAlert(p)
                       THEN 0 ELSE last_alerts[p]]

\* One pass of `while self.is_running` by loop k: _check_protocols, then
\* asyncio.sleep(check_interval).  An exception _check_protocols lets out
\* (SessionLocal() is outside its try) is caught by start_monitoring, which
\* clears is_running and returns.
LoopPass(k, crashed) ==
    IF crashed
    THEN /\ monitor_running' = FALSE
         /\ monitor_loops' = [monitor_loops EXCEPT ![k] = "ended"]
         /\ UNCHANGED last_alerts
    ELSE /\ monitor_running' = TRUE
         /\ monitor_loops' = [monitor_loops EXCEPT ![k] = "sleeping"]
         /\ \E upto \in 0..NumProtocols : CheckProtocols(upto)

\* if self.is_running: return
MonitorIsRunning == monitor_running

\* start_monitoring() is called (awaited or made a task): it returns at once
\* when is_running is set; otherwise it sets is_running and runs its first
\* pass up to the sleep.
StartMonitoring ==
    /\ \E k \in LoopIds :
          /\ monitor_loops[k] = "none"
          /\ \A j \in 1..(k - 1) : monitor_loops[j] # "none"
          /\ IF MonitorIsRunning
             THEN UNCHANGED monitorVars
             ELSE \E crashed \in BOOLEAN :
                     /\ LoopPass(k, crashed)
                     /\ monitor_checkers' = IF crashed THEN {} ELSE {k}
    /\ UNCHANGED <<rlVars, alertVars, schedVars, clientVars, prefVars,
                   collectVars, statsVars, resolveVars, trackVars>>

\* stop_monitoring()
StopMonitoring ==
    /\ monitor_running' = FALSE
    /\ UNCHANGED <<monitor_loops, last_alerts, monitor_checkers>>
    /\ UNCHANGED <<rlVars, alertVars, schedVars, clientVars, prefVars,
                   collectVars, statsVars, resolveVars, trackVars>>

\* The sleep of loop k is over: `while self.is_running` is tested again.
MonitorWake(k) ==
    /\ monitor_loops[k] = "sleeping"
    /\ IF monitor_running
       THEN \E crashed \in BOOLEAN :
               /\ LoopPass(k, crashed)
               /\ monitor_checkers' =
                      IF crashed THEN monitor_checkers
                      ELSE monitor_checkers \cup {k}
       ELSE /\ monitor_loops' = [monitor_loops EXCEPT ![k] = "ended"]
            /\ UNCHANGED <<monitor_running, last_alerts, monitor_checkers>>
    /\ UNCHANGED <<rlVars, alertVars, schedVars, clientVars, prefVars,
                   collectVars, statsVars, resolveVars, trackVars>>

\* One hour passes.
MonitorTick ==
    /\ last_alerts' = [p \in Protocols |-> MonitorAge(last_alerts[p])]
    /\ UNCHANGED <<monitor_running, monitor_loops, monitor_checkers>>
    /\ UNCHANGED <<rlVars, alertVars, schedVars, clientVars, prefVars,
                   collectVars, statsVars, resolveVars, trackVars>>

(***************************************************************************)
(* RateLimiter.get_stats and RateLimiter.reset_stats                        *)
(***************************************************************************)
\* The _get_stats() coroutine as an acquirer of the limiter's lock.
StatsCaller == NumCallers + 1

\* total_calls and total_rate_limited of a limiter that served
\* execute_with_backoff calls longer than a period ago.
PriorStats == {<<0, 0>>, <<3, 2>>}

StatsIdle ==
    /\ total_rate_limited = 0
    /\ stats_pc = "idle"

\* get_stats(): with an event loop (ensure_future on the running loop, or
\* run_until_complete) the statistics are what _get_stats() returns from
\* inside `async with self._lock`; without one, asyncio.get_event_loop()
\* raises and the bare except returns the two counters at once.  The second
\* disjunct is _get_stats() being given the lock after it parked.
GetStats ==
    /\ \/ /\ stats_pc \in {"idle", "returned", "partial"}
          /\ \E has_loop \in BOOLEAN :
                IF ~has_loop
                THEN /\ stats_pc' = "partial"
                     /\ UNCHANGED lock_waiters
                ELSE IF LockFree
                     THEN /\ stats_pc' = "returned"
                          /\ UNCHANGED lock_waiters
                     ELSE /\ stats_pc' = "lock_wait"
                          /\ lock_waiters' = Append(lock_waiters, StatsCaller)
       \/ /\ stats_pc = "lock_wait"
          /\ lock_holder = NoCaller
          /\ lock_waiters # <<>> /\ Head(lock_waiters) = StatsCaller
          /\ lock_waiters' = Tail(lock_waiters)
          /\ stats_pc' = "returned"
    /\ UNCHANGED <<call_times, total_calls, lock_holder, rl_pc, sleep_left,
                   grants, total_rate_limited>>
    /\ UNCHANGED <<alertVars, schedVars, clientVars, prefVars, collectVars,
                   monitorVars, resolveVars, trackVars>>

\* Variant, for sensitivity: a reset that also empties the sliding window.
WindowAfterResetCleared == <<>>

\* reset_stats() assigns the two counters and nothing else: self._call_times
\* is as it was.
WindowAfterReset == call_times

\* reset_stats(): synchronous, no lock taken.
ResetStats ==
    /\ total_calls' = 0
    /\ total_rate_limited' = 0
    /\ call_times' = WindowAfterReset
    /\ UNCHANGED <<lock_holder, lock_waiters, rl_pc, sleep_left, grants,
                   stats_pc>>
    /\ UNCHANGED <<alertVars, schedVars, clientVars, prefVars, collectVars,
                   monitorVars, resolveVars, trackVars>>

(***************************************************************************)
(* CoinGeckoClient.resolve_asset_id and DeFiLlamaClient.resolve_protocol_slug *)
(***************************************************************************)
\* Entries of the provider's result list.
MaxResults == 3

\* symbol is None (or empty): `symbol or ''`, `if symbol and ...`.
NoSymbol == <<>>
\* return None
NotFound == 0

\* Strings are sequences of characters.
LowerChar(ch) ==
    CASE ch = "U" -> "u"
      [] ch = "N" -> "n"
      [] ch = "I" -> "i"
      [] ch = "X" -> "x"
      [] OTHER -> ch

\* str.lower()
Lower(str) == [i \in 1..Len(str) |-> LowerChar(str[i])]

\* key in text
Contains(key, text) ==
    \E i \in 0..(Len(text) - Len(key)) : SubSeq(text, i + 1, i + Len(key)) = key

\* The protocol looked up, and the entries a provider may list: an entry
\* whose name is the protocol's in another case, one whose name contains it,
\* one that has nothing of it; a symbol that is the token's, or another.
QueryNames == {<<"U", "n", "i">>}
QuerySymbols == {NoSymbol, <<"X">>}
ProviderEntries ==
    [symbol : {<<"x">>, <<"a">>},
     name : {<<"U", "N", "I">>, <<"u", "n", "i", "x">>, <<"a">>}]

ResolveIdle ==
    /\ resolve_name = <<>>
    /\ resolve_symbol = NoSymbol
    /\ resolve_list = <<>>
    /\ resolve_pc = "idle"
    /\ resolve_result = NotFound

\* UNION over the lengths 0..n of the sequences over S.
SeqsUpTo(S, n) == UNION {[1..k -> S] : k \in 0..n}

\* A lookup about to be made, and what the provider will answer to it.
ResolveInit ==
    /\ resolve_name \in QueryNames
    /\ resolve_symbol \in QuerySymbols
    /\ resolve_list \in SeqsUpTo(ProviderEntries, MaxResults)
    /\ resolve_pc = "idle"
    /\ resolve_result = NotFound

\* if symbol and c.get("symbol", "").lower() == symbol.lower()
SymbolEquals(c) ==
    resolve_symbol # NoSymbol /\ Lower(c.symbol) = Lower(resolve_symbol)

\* c.get("name", "").lower() == name.lower()
NameEquals(c) == Lower(c.name) = Lower(resolve_name)

\* key in p.get("name", "").lower()
NameContains(c) == Contains(Lower(resolve_name), Lower(c.name))

\* The entry a `for` loop with a `return` under its test stops at, of the
\* entries that pass the test; None after the loop when none does.
FirstMatch(passing) ==
    IF passing = {} THEN NotFound
    ELSE CHOOSE i \in passing : \A j \in passing : i <= j

\* The two tests of resolve_asset_id's single loop, made on every entry in
\* turn.
AssetMatch(c) == SymbolEquals(c) \/ NameEquals(c)

\* await self._rate_limiter.acquire() of a resolver whose limiter has a free
\* slot.
ResolveAcquire ==
    /\ LockFree
    /\ ~AtLimit(DropExpired(call_times))
    /\ LockedBody(ClientCaller)
    /\ UNCHANGED lock_waiters

\* resolve_asset_id(name, symbol), the key not in the cache: the entries of
\* data["coins"] (an entry stands for its id).
ResolveAssetId ==
    /\ resolve_pc = "idle"
    /\ ResolveAcquire
    /\ resolve_result' =
          FirstMatch({i \in 1..Len(resolve_list) : AssetMatch(resolve_list[i])})
    /\ resolve_pc' = "asset"
    /\ UNCHANGED <<resolve_name, resolve_symbol, resolve_list>>
    /\ UNCHANGED <<alertVars, schedVars, clientVars, prefVars, collectVars,
                   monitorVars, statsVars, trackVars>>

\* resolve_protocol_slug(name), the key not in the cache: a first loop for
\* the equal name, a second for the name that contains the key (an entry
\* stands for its slug).
ResolveProtocolSlug ==
    /\ resolve_pc = "idle"
    /\ ResolveAcquire
    /\ LET equal == {i \in 1..Len(resolve_list) : NameEquals(resolve_list[i])}
           containing == {i \in 1..Len(resolve_list) :
                             NameContains(resolve_list[i])}
       IN  resolve_result' = IF equal # {} THEN FirstMatch(equal)
                             ELSE FirstMatch(containing)
    /\ resolve_pc' = "slug"
    /\ UNCHANGED <<resolve_name, resolve_symbol, resolve_list>>
    /\ UNCHANGED <<alertVars, schedVars, clientVars, prefVars, collectVars,
                   monitorVars, statsVars, trackVars>>

(***************************************************************************)
(* The alert dispatch over RiskScore rows that change between its runs      *)
(***************************************************************************)
\* RiskScore rows stored between the runs of one behaviour.
MaxStores == 2

TrackIdle ==
    /\ suppressed = [s \in Subscribers |-> {}]
    /\ run_suppressed = [s \in Subscribers |-> {}]

RECURSIVE RowsStored(_)
RowsStored(p) ==
    IF p > NumProtocols THEN 0 ELSE Len(risk_rows[p]) + RowsStored(p + 1)

\* RiskCalculatorService._store_risk_score, called by predict_batch for an
\* active protocol: the prediction is stored as a new RiskScore row.
StoreRiskScore ==
    /\ RowsStored(1) < NumProtocols + MaxStores
    /\ \E p \in ActiveProtocols, v \in RiskValues :
          risk_rows' = [risk_rows EXCEPT ![p] = Append(@, v)]
    /\ run_kind' = "none"
    /\ run_prev' = [s \in Subscribers |-> NoTime]
    /\ run_calls' = [s \in Subscribers |-> <<>>]
    /\ run_outcome' = [s \in Subscribers |-> "none"]
    /\ run_notified' = [s \in Subscribers |-> NoTime]
    /\ run_risk_read' = [p \in Protocols |-> 0]
    /\ run_stats' = NoRunStats
    /\ UNCHANGED <<subscribers, last_alert_sent, protocol_active,
                   last_notified>>
    /\ UNCHANGED <<rlVars, schedVars, clientVars, prefVars, collectVars,
                   monitorVars, statsVars, resolveVars, trackVars>>

\* check_and_send_alerts called outside a cycle, with the history of the
\* candidates it skipped for the cooldown: a send empties the subscriber's
\* history, a skip adds the skipped protocols to it.
CheckAndSendAlertsTracked ==
    /\ CheckAndSendAlertsRun
    /\ UNCHANGED risk_rows
    /\ run_suppressed' = suppressed
    /\ suppressed' =
          [s \in Subscribers |->
              IF run_calls'[s] # <<>> THEN {}
              ELSE IF s \in ActiveVerified /\ ~ShouldSendAlert(s)
                   THEN suppressed[s] \cup AlertsForSubscriber(s)
                   ELSE suppressed[s]]
    /\ UNCHANGED <<rlVars, schedVars, clientVars, prefVars, collectVars,
                   monitorVars, statsVars, resolveVars>>

(***************************************************************************)
(* Specifications                                                           *)
(***************************************************************************)
RLCaller(c) ==
    \/ AcquireLock(c)
    \/ AcquirePark(c)
    \/ SleepDone(c)

RLNext ==
    \/ \E c \in Callers : RLCaller(c)
    \/ RLTick

\* The event loop runs every runnable task and the clock advances.
RLFairness ==
    /\ WF_vars(RLTick)
    /\ \A c \in Callers : WF_vars(RLCaller(c))

RLInit ==
    /\ RateLimiterInit /\ AlertIdle /\ SchedulerInit /\ MetricsIdle
    /\ ClientIdle /\ PrefIdle
    /\ CollectIdle /\ MonitorIdle
    /\ StatsIdle /\ ResolveIdle /\ TrackIdle

RLSpec == RLInit /\ [][RLNext]_vars /\ RLFairness

AlertNext ==
    \/ CheckAndSendAlerts
    \/ SendAlertsToAllSubscribers
    \/ AlertTick

AlertSpecInit ==
    /\ AlertInit /\ RateLimiterInit /\ SchedulerInit /\ MetricsIdle
    /\ ClientIdle /\ PrefIdle
    /\ CollectIdle /\ MonitorIdle
    /\ StatsIdle /\ ResolveIdle /\ TrackIdle

AlertSpec == AlertSpecInit /\ [][AlertNext]_vars

\* A database with unsubscribed and unverified subscribers, a protocol whose
\* risk rose or fell between its two RiskScore rows, a protocol with one row
\* or none, and high-risk protocols of which one may be inactive.
EligInit ==
    /\ subscribers \in [Subscribers -> EligProfiles]
    /\ risk_rows \in {[p \in Protocols |->
                          IF p = 1 THEN r1 ELSE IF p = 2 THEN r2 ELSE <<80>>] :
                      r1 \in {<<80, 30>>, <<30, 80>>}, r2 \in {<<>>, <<80>>}}
    /\ protocol_active \in {[p \in Protocols |-> TRUE],
                            [p \in Protocols |-> p # InactiveProtocol]}
    /\ last_alert_sent = [s \in Subscribers |-> NoTime]
    /\ last_notified = last_alert_sent
    /\ NoRun
    /\ RateLimiterInit /\ SchedulerInit /\ MetricsIdle
    /\ ClientIdle /\ PrefIdle
    /\ CollectIdle /\ MonitorIdle
    /\ StatsIdle /\ ResolveIdle /\ TrackIdle

EligSpec == EligInit /\ [][AlertNext]_vars

\* Dispatch runs keep coming (the scheduler's cycles call
\* check_and_send_alerts every interval) and time passes.
AlertFairness == WF_vars(CheckAndSendAlerts) /\ WF_vars(AlertTick)

AlertFairSpec == AlertSpecInit /\ [][AlertNext]_vars /\ AlertFairness

SchedCycle(t) ==
    \/ CycleBegin(t)
    \/ CycleMetrics(t)
    \/ CycleRisk(t)
    \/ CycleAlerts(t)
    \/ CycleFault(t)

SchedNext ==
    \/ Start
    \/ Stop
    \/ ForceImmediateUpdate
    \/ TimerTick
    \/ \E t \in TaskIds : SchedCycle(t)

\* The database of the scheduler's runs: the first subscriber verified, the
\* other not yet, both with the default thresholds; one RiskScore row per
\* protocol, the first protocol's above the thresholds.
SchedInit ==
    /\ SchedulerInit
    /\ MetricsInit
    /\ RateLimiterInit
    /\ ClientIdle
    /\ PrefIdle
    /\ CollectIdle
    /\ MonitorIdle
    /\ StatsIdle /\ ResolveIdle /\ TrackIdle
    /\ subscribers = [s \in Subscribers |->
                          CHOOSE p \in Profiles : p.is_verified = (s = "s1")]
    /\ risk_rows = [p \in Protocols |-> IF p = 1 THEN <<80>> ELSE <<30>>]
    /\ protocol_active = [p \in Protocols |-> p # InactiveProtocol]
    /\ last_alert_sent = [s \in Subscribers |-> NoTime]
    /\ last_notified = last_alert_sent
    /\ NoRun

SchedSpec == SchedInit /\ [][SchedNext]_vars

\* The event loop runs every task that is ready to run.
SchedFairness == \A t \in TaskIds : WF_vars(SchedCycle(t))

\* A deployment whose RiskScore table is still empty.
SchedFairInit ==
    /\ SchedulerInit /\ MetricsIdle /\ RateLimiterInit /\ AlertIdle
    /\ ClientIdle /\ PrefIdle
    /\ CollectIdle /\ MonitorIdle
    /\ StatsIdle /\ ResolveIdle /\ TrackIdle

SchedFairSpec == SchedFairInit /\ [][SchedNext]_vars /\ SchedFairness

ClientNext ==
    \/ FetchMarketSnapshot
    \/ ExecuteWithBackoff
    \/ ClientAcquire
    \/ GetJsonAttempt
    \/ ExecuteAttempt
    \/ RLTick

ClientInit ==
    /\ ClientIdle /\ RateLimiterInit /\ AlertIdle /\ SchedulerInit
    /\ MetricsIdle /\ PrefIdle
    /\ CollectIdle /\ MonitorIdle
    /\ StatsIdle /\ ResolveIdle /\ TrackIdle

ClientSpec == ClientInit /\ [][ClientNext]_vars

CollectNext ==
    \/ Collect
    \/ \E c \in Callers : CollectAcquire(c)
    \/ \E c \in Callers : CollectRequest(c)
    \/ CollectReturn
    \/ RLTick

\* asyncio.run(service.collect(...)): the event loop runs every coroutine
\* that can go on, and the clock advances.
CollectFairness ==
    /\ WF_vars(RLTick)
    /\ WF_vars(CollectReturn)
    /\ \A c \in Callers :
          WF_vars(CollectAcquire(c)) /\ WF_vars(CollectRequest(c))

CollectInit ==
    /\ CollectIdle /\ RateLimiterInit /\ AlertIdle /\ SchedulerInit
    /\ MetricsIdle /\ ClientIdle /\ PrefIdle /\ MonitorIdle
    /\ StatsIdle /\ ResolveIdle /\ TrackIdle

CollectSpec == CollectInit /\ [][CollectNext]_vars /\ CollectFairness

MonitorNext ==
    \/ StartMonitoring
    \/ StopMonitoring
    \/ \E k \in LoopIds : MonitorWake(k)
    \/ MonitorTick

\* The tables the monitor reads: one RiskScore row per protocol, the first
\* protocol's below or above the threshold, the others above it; every
\* protocol active, or one of them not.
MonitorInit ==
    /\ MonitorIdle
    /\ StatsIdle /\ ResolveIdle /\ TrackIdle
    /\ subscribers = [s \in Subscribers |-> CHOOSE p \in Profiles : p.is_verified]
    /\ risk_rows \in {[p \in Protocols |-> IF p = 1 THEN <<v>> ELSE <<80>>] :
                      v \in RiskValues}
    /\ protocol_active \in {[p \in Protocols |-> TRUE],
                            [p \in Protocols |-> p # InactiveProtocol]}
    /\ last_alert_sent = [s \in Subscribers |-> NoTime]
    /\ last_notified = last_alert_sent
    /\ NoRun
    /\ RateLimiterInit /\ SchedulerInit /\ MetricsIdle
    /\ ClientIdle /\ PrefIdle /\ CollectIdle

MonitorSpec == MonitorInit /\ [][MonitorNext]_vars

StatsNext ==
    \/ RLNext
    \/ GetStats
    \/ ResetStats

\* A limiter with its counters at zero, or as earlier calls left them.
StatsInit ==
    /\ call_times = <<>>
    /\ \E prior \in PriorStats :
          /\ total_calls = prior[1]
          /\ total_rate_limited = prior[2]
    /\ lock_holder = NoCaller
    /\ lock_waiters = <<>>
    /\ rl_pc = [c \in Callers |-> "idle"]
    /\ sleep_left = [c \in Callers |-> 0]
    /\ grants = <<>>
    /\ stats_pc = "idle"
    /\ AlertIdle /\ SchedulerInit /\ MetricsIdle /\ ClientIdle /\ PrefIdle
    /\ CollectIdle /\ MonitorIdle /\ ResolveIdle /\ TrackIdle

StatsSpec == StatsInit /\ [][StatsNext]_vars

ResolveNext ==
    \/ ResolveAssetId
    \/ ResolveProtocolSlug

ResolveSpecInit ==
    /\ ResolveInit /\ RateLimiterInit /\ AlertIdle /\ SchedulerInit
    /\ MetricsIdle /\ ClientIdle /\ PrefIdle /\ CollectIdle /\ MonitorIdle
    /\ StatsIdle /\ TrackIdle

ResolveSpec == ResolveSpecInit /\ [][ResolveNext]_vars

CooldownNext ==
    \/ CheckAndSendAlertsTracked
    \/ StoreRiskScore
    \/ AlertTick

\* Both subscribers verified with the default thresholds; the protocols
\* before InactiveProtocol active with one RiskScore row each, the others
\* retired with a row above the thresholds; nobody alerted yet.
CooldownInit ==
    /\ subscribers = [s \in Subscribers |->
                          CHOOSE p \in Profiles : p.is_verified]
    /\ protocol_active = [p \in Protocols |-> p < InactiveProtocol]
    /\ risk_rows \in {rows \in [Protocols -> {<<v>> : v \in RiskValues}] :
                         \A p \in Protocols :
                            p >= InactiveProtocol => rows[p] = <<80>>}
    /\ last_alert_sent = [s \in Subscribers |-> NoTime]
    /\ last_notified = last_alert_sent
    /\ NoRun
    /\ RateLimiterInit /\ SchedulerInit /\ MetricsIdle /\ ClientIdle
    /\ PrefIdle /\ CollectIdle /\ MonitorIdle
    /\ StatsIdle /\ ResolveIdle /\ TrackIdle

CooldownSpec == CooldownInit /\ [][CooldownNext]_vars

PrefSpecInit ==
    /\ PrefInit /\ RateLimiterInit /\ AlertIdle /\ SchedulerInit
    /\ MetricsIdle /\ ClientIdle
    /\ CollectIdle /\ MonitorIdle
    /\ StatsIdle /\ ResolveIdle /\ TrackIdle

PrefSpec == PrefSpecInit /\ [][DeriveAlertType]_vars

(***************************************************************************)
(* Claims about the RateLimiter (checked under RLSpec)                      *)
(***************************************************************************)
\* C1: at every instant the number of grants whose timestamp lies in the
\* trailing interval [now - period, now] is at most max_calls, for every
\* interleaving of the callers.
C1_RateSafety == Len(grants) <= MaxCalls

\* C1 witness: the window has slid (more grants than the budget were issued
\* in total) and the trailing window is full.
C1_Witness == total_calls > MaxCalls /\ Len(grants) = MaxCalls

\* C2: every acquire() call is eventually granted (the caller returns with
\* its grant recorded), under fair scheduling and advancing time.
C2_EveryCallGranted ==
    \A c \in Callers : (rl_pc[c] # "idle") ~> (rl_pc[c] = "done")

\* C3: max_calls + 2 calls issued at the same instant into an empty window
\* all complete: the first max_calls at once, the others after the period.
C3_BurstCompletes ==
    (/\ \A c \in Callers : rl_pc[c] # "idle"
     /\ Len(grants) = MaxCalls
     /\ \A i \in 1..Len(grants) : grants[i] = 0)
    ~> (total_calls = NumCallers /\ \A c \in Callers : rl_pc[c] = "done")

\* C21: the lock is never held by a caller that is suspended waiting for a
\* slot, so that other callers can enter the section while it sleeps.
C21_LockFreeWhileSleeping ==
    \A c \in Callers : rl_pc[c] = "sleeping" => lock_holder # c

(***************************************************************************)
(* Claim about DataCollectorService.collect (checked under CollectSpec)     *)
(***************************************************************************)
\* C25: collect() terminates, whatever the number of selected protocols and
\* of concurrent acquire() calls, and returns a count between 0 and the
\* number of selected protocols.
C25_CollectTerminates ==
    (collect_pc = "gathering") ~>
        (collect_pc = "returned" /\ processed \in 0..Cardinality(Selected))

(***************************************************************************)
(* Claim about RealtimeRiskMonitor (checked under MonitorSpec)              *)
(***************************************************************************)
\* C26: whatever the order of start_monitoring() and stop_monitoring() calls,
\* at most one loop is alive and checking the protocols.
C26_AtMostOneLoop ==
    Cardinality({k \in LoopIds : /\ monitor_loops[k] = "sleeping"
                                 /\ k \in monitor_checkers}) <= 1

(***************************************************************************)
(* Claims about the alert dispatch (checked under AlertSpec)                *)
(***************************************************************************)
\* Subscriber s was read by the run that has just returned, with at least
\* one protocol at or above one of its enabled thresholds.
Triggered(s) == s \in ActiveVerified /\ AlertsForSubscriber(s) # {}

\* last_alert_sent of s, as the run found it, was within the cooldown.
InCooldown(s) == run_prev[s] # NoTime /\ run_prev[s] <= alert_cooldown

\* C5: in check_and_send_alerts a subscriber's last_alert_sent changes only
\* if the send to that subscriber returned true.
C5_UpdatedOnlyOnSuccess ==
    run_kind = "check" =>
        \A s \in Subscribers :
            last_alert_sent[s] # run_prev[s] => run_outcome[s] = "ok"

\* C6: a subscriber whose last_alert_sent is set and at most one cooldown old
\* (boundary included) gets no send in the run, however many protocols
\* triggered, and its last_alert_sent is unchanged.
C6_CooldownHold ==
    run_kind = "check" =>
        \A s \in Subscribers :
            InCooldown(s) =>
                /\ run_calls[s] = <<>>
                /\ last_alert_sent[s] = run_prev[s]

\* C6 witness: a run found a triggered subscriber exactly one cooldown after
\* its last alert, and held the alert back.
C6_Witness ==
    /\ run_kind = "check"
    /\ \E s \in Subscribers :
          /\ Triggered(s)
          /\ run_prev[s] = alert_cooldown
          /\ Cardinality(AlertsForSubscriber(s)) > 1
          /\ run_calls[s] = <<>>

\* C7: a subscriber with a triggered protocol and last_alert_sent null or
\* older than the cooldown gets exactly one send, and when that send succeeds
\* last_alert_sent is the dispatch time.
C7_CooldownRelease ==
    run_kind = "check" =>
        \A s \in Subscribers :
            (Triggered(s) /\ ~InCooldown(s)) =>
                /\ Len(run_calls[s]) = 1
                /\ run_outcome[s] = "ok" => last_alert_sent[s] = 0

\* C7 witness: a subscriber alerted before, past its cooldown, is sent one
\* notification that succeeds.
C7_Witness ==
    /\ run_kind = "check"
    /\ \E s \in Subscribers :
          /\ Triggered(s)
          /\ run_prev[s] > alert_cooldown
          /\ Len(run_calls[s]) = 1
          /\ run_outcome[s] = "ok"
          /\ last_alert_sent[s] = 0

\* C8: two notifications delivered to the same subscriber are never within
\* one cooldown of each other, whichever dispatch run sent them.
C8_OnePerCooldownWindow ==
    \A s \in Subscribers :
        run_outcome[s] = "ok" =>
            (run_notified[s] = NoTime \/ run_notified[s] > alert_cooldown)

\* C9: in one check_and_send_alerts run a subscriber gets at most one call:
\* send_risk_alert when exactly one protocol triggered, one send_batch_alerts
\* carrying all of them when several did, and none when nothing triggered.
C9_Aggregation ==
    run_kind = "check" =>
        \A s \in Subscribers :
            /\ Len(run_calls[s]) <= 1
            /\ ~Triggered(s) => run_calls[s] = <<>>
            /\ run_calls[s] # <<>> =>
                  /\ run_calls[s][1].protocols = AlertsForSubscriber(s)
                  /\ run_calls[s][1].kind =
                        (IF Cardinality(AlertsForSubscriber(s)) = 1
                         THEN "single" ELSE "batch")

\* C9 witness: three protocols triggered for one subscriber and the run made
\* one batched call.
C9_Witness ==
    /\ run_kind = "check"
    /\ \E s \in Subscribers :
          /\ Cardinality(AlertsForSubscriber(s)) >= 3
          /\ Len(run_calls[s]) = 1
          /\ run_calls[s][1].kind = "batch"

\* C23: a send that returns False or raises for one subscriber does not stop
\* the run: every other subscriber that is active and verified, has a
\* triggered protocol and is not in its cooldown still gets its one send.
C23_DispatchFailureIsolated ==
    run_kind = "check" =>
        \A r, s \in Subscribers :
            (/\ r # s
             /\ run_outcome[r] \in {"fail", "raise"}
             /\ Triggered(s)
             /\ ~InCooldown(s)) =>
                /\ run_calls[s] = SendAlertsToSubscriber(AlertsForSubscriber(s))
                /\ run_outcome[s] # "none"

\* C23 witness: the send to the first subscriber of the run raised, and the
\* second subscriber was sent its notification.
C23_Witness ==
    /\ run_kind = "check"
    /\ \E r, s \in Subscribers :
          /\ SubscriberRank(r) < SubscriberRank(s)
          /\ run_outcome[r] = "raise"
          /\ run_outcome[s] = "ok"

\* A run of check_and_send_alerts has just held back the candidates of
\* subscriber s because of its cooldown.
Suppressed(s) ==
    /\ run_kind = "check"
    /\ Triggered(s)
    /\ InCooldown(s)
    /\ run_calls[s] = <<>>

\* C24: candidates held back by the cooldown are not lost.  With the
\* protocol staying above the subscriber's threshold, runs that keep coming
\* and sends that succeed, a subscriber whose candidates were held back is
\* eventually notified.
C24_SuppressedEventuallyNotified ==
    \A s \in Subscribers :
        [](run_outcome[s] \notin {"fail", "raise"}) =>
            (Suppressed(s) ~> (run_outcome[s] = "ok" /\ last_notified[s] = 0))

\* C24 witness: a subscriber notified by one run has its candidates held back
\* by the next run, before any time has passed.
C24_Witness ==
    \E s \in Subscribers :
        Suppressed(s) /\ run_prev[s] = 0 /\ last_notified[s] = 0

\* C30: a run of check_and_send_alerts sends only to subscribers that are
\* active and verified, and every protocol a send lists is active, has a
\* RiskScore row, and its latest row is at or above one of the subscriber's
\* enabled thresholds.
C30_OnlyEligible ==
    run_kind = "check" =>
        \A s \in Subscribers :
            /\ run_calls[s] # <<>> =>
                   subscribers[s].is_active /\ subscribers[s].is_verified
            /\ \A i \in 1..Len(run_calls[s]) :
                   \A p \in run_calls[s][i].protocols :
                       /\ protocol_active[p]
                       /\ risk_rows[p] # <<>>
                       /\ AlertType(subscribers[s],
                                    risk_rows[p][Len(risk_rows[p])]) # "none"

\* C30 witness: a run sends to one subscriber and not to an unverified one,
\* and the send leaves out a high-risk protocol that is inactive and a
\* protocol whose risk was high only in an older row.
C30_Witness ==
    /\ run_kind = "check"
    /\ \E s, r \in Subscribers :
          /\ run_calls[s] # <<>>
          /\ subscribers[r].is_active /\ ~subscribers[r].is_verified
          /\ run_calls[r] = <<>>
          /\ \E p, q \in Protocols :
                /\ ~protocol_active[p] /\ HasRisk(p) /\ LatestRisk(p) >= 70
                /\ p \notin run_calls[s][1].protocols
                /\ Len(risk_rows[q]) = 2 /\ risk_rows[q][1] >= 70
                /\ q \notin run_calls[s][1].protocols

(***************************************************************************)
(* Claims about the scheduler and the cycle (checked under SchedSpec)       *)
(***************************************************************************)
\* C4: at most one _run_data_update_cycle is between its entry and its exit
\* at any instant, whatever the order of timer ticks, start()'s immediate
\* cycle and force-update requests.
C4_SingleFlight == CyclesExecuting <= 1

\* C4 witness: the cycle start() created is executing while a cycle the
\* timer submitted is waiting on the event loop.
C4_Witness ==
    \E t1, t2 \in TaskIds :
        /\ tasks[t1].pc \in CycleSteps
        /\ tasks[t1].origin = "start"
        /\ tasks[t2].pc = "pending"
        /\ tasks[t2].origin = "timer"

C11_CycleNeverRaises ==
    [][\A t \in TaskIds :
          (tasks[t].pc \in CycleSteps /\ tasks'[t].pc \notin CycleSteps) =>
              /\ tasks'[t] = DoneTask
              /\ is_running' = is_running
              /\ job_registered' = job_registered
              /\ timer_interval' = timer_interval]_vars

\* C11 witness: a cycle has just faulted and the scheduler is running with
\* its job registered.
C11_Witness ==
    /\ sched_log.op = "cycle_fault"
    /\ is_running
    /\ job_registered
    /\ \A t \in TaskIds : tasks[t].pc # "raised"

\* C12: while the scheduler is stopped no cycle is between its entry and its
\* exit, whoever created the cycle's task.
C12_StoppedMeansNoCycle ==
    ~is_running => \A t \in TaskIds : tasks[t].pc \notin CycleSteps

\* C13: start() on a running scheduler changes neither is_running, the job
\* and its interval, the tasks, the run count nor the last run time.
C13_StartIdempotent ==
    [][(is_running /\ sched_log'.op \in {"start", "start_noop"}) =>
          UNCHANGED <<is_running, job_registered, timer_interval, tasks,
                      tasks_created, update_count, last_update_time>>]_vars

\* C13 witness: start() has just returned early on a scheduler that had
\* already completed a cycle.
C13_Witness ==
    /\ sched_log.op = "start_noop"
    /\ update_count > 0
    /\ is_running

\* C14: start() on a stopped scheduler registers the job with an interval of
\* the range, sets is_running and creates exactly one task, which has not run
\* when start() returns; that task eventually runs to its end.
C14_StartLaunchesOneCycle ==
    /\ [][(~is_running /\ sched_log'.op = "start") =>
             /\ is_running'
             /\ job_registered'
             /\ timer_interval' \in Intervals
             /\ tasks_created' = tasks_created + 1
             /\ tasks' = [tasks EXCEPT ![tasks_created + 1] =
                                          [pc |-> "pending", origin |-> "start"]]
             /\ update_count' = update_count]_vars
    /\ \A t \in TaskIds :
          (tasks[t].pc = "pending" /\ tasks[t].origin = "start")
              ~> (tasks[t].pc = "done")

\* C14 witness: start() has just returned and its cycle is waiting on the
\* event loop.
C14_Witness ==
    /\ sched_log.op = "start"
    /\ is_running
    /\ job_registered
    /\ \E t \in TaskIds : tasks[t] = [pc |-> "pending", origin |-> "start"]

\* C18: in a cycle no risk row is added before the metrics step has
\* returned, and the alert evaluation of a cycle that added a risk row for a
\* protocol read that very row.
C18_StepOrder ==
    /\ \A t \in TaskIds :
          /\ tasks[t].pc = "metrics" => risk_appended = NoRows
          /\ tasks[t].pc = "risk" =>
                (metrics_stats # NoStats /\ risk_appended = NoRows)
    /\ sched_log.op = "cycle_complete" =>
          \A p \in Protocols :
              risk_appended[p] # 0 => run_risk_read[p] = risk_appended[p]

\* C18 witness: a later cycle has completed after adding a risk row that its
\* alert evaluation read.
C18_Witness ==
    /\ sched_log.op = "cycle_complete"
    /\ \E p \in Protocols :
          /\ risk_appended[p] >= 3
          /\ run_risk_read[p] = risk_appended[p]

\* C20: when a cycle completes, the interval the job's trigger uses is the
\* one drawn at the end of that cycle.
C20_IntervalRerolled ==
    (sched_log.op = "cycle_complete" /\ job_registered) =>
        timer_interval = sched_log.minutes

\* C22: step 2 of a cycle appends a risk record only for a protocol whose
\* metrics step 1 of the same cycle refreshed; a protocol whose refresh was
\* skipped, failed or was rolled back gets none.
C22_RiskOnlyAfterFreshSnapshot ==
    [][\A t \in TaskIds :
          (tasks[t].pc = "risk" /\ tasks'[t].pc = "alerts") =>
              \A p \in Protocols :
                  risk_appended'[p] # 0 => metric_count[p] > refresh_prev[p]]_vars

\* C29: the two series are append-only.  Every step leaves the rows already
\* committed in place, adds at most one ProtocolMetric row and at most one
\* RiskScore row per protocol and none for an inactive protocol, and rows are
\* added only by step 1 (metrics) and step 2 (risk) of a cycle, which a cycle
\* passes once each.
C29_AppendOnly ==
    [][\/ metric_count' = metric_count /\ risk_rows' = risk_rows
       \/ /\ \A p \in Protocols :
                /\ metric_count'[p] \in {metric_count[p], metric_count[p] + 1}
                /\ Len(risk_rows'[p]) \in
                       {Len(risk_rows[p]), Len(risk_rows[p]) + 1}
                /\ SubSeq(risk_rows'[p], 1, Len(risk_rows[p])) = risk_rows[p]
                /\ ~protocol_active[p] =>
                       /\ metric_count'[p] = metric_count[p]
                       /\ risk_rows'[p] = risk_rows[p]
          /\ metric_count' # metric_count =>
                \E t \in TaskIds :
                    tasks[t].pc = "metrics" /\ tasks'[t].pc = "risk"
          /\ risk_rows' # risk_rows =>
                \E t \in TaskIds :
                    tasks[t].pc = "risk" /\ tasks'[t].pc = "alerts"
      ]_vars

\* C29 witness: step 1 of a cycle has just rolled back, after earlier cycles
\* committed a second ProtocolMetric row and a second RiskScore row.
C29_Witness ==
    /\ \E t \in TaskIds : tasks[t].pc = "risk"
    /\ metrics_stats.error
    /\ \E p \in Protocols : metric_count[p] >= 2 /\ Len(risk_rows[p]) >= 2

(***************************************************************************)
(* Claims about the retrying wrappers (checked under ClientSpec)            *)
(***************************************************************************)
\* C15: the requests sent to the provider never outnumber the grants its
\* RateLimiter has issued: every attempt, retries included, follows a grant
\* of its own.
C15_AttemptsWithinGrants == requests_sent <= total_calls

\* The attempts of the call that ended in a rate-limit response.
RateLimitedAt(i) == call_log[i].resp = "rate_limited"

\* The cap of the wrapper that makes the call.
DelayCap == IF call_op = "ewb" THEN MaxBackoff ELSE RetryAfterCap

\* C16, as stated: for consecutive rate-limit responses within one call the
\* retry delays never decrease, and every one is at most the cap.
C16_BackoffGrowth ==
    /\ \A i \in 1..Len(call_log) :
          RateLimitedAt(i) => call_log[i].delay <= DelayCap
    /\ \A i \in 1..(Len(call_log) - 1) :
          (RateLimitedAt(i) /\ RateLimitedAt(i + 1)) =>
              call_log[i].delay <= call_log[i + 1].delay

\* C16, amended: the delays never decrease over consecutive rate-limit
\* responses that carry no Retry-After of the provider, and every delay after
\* a rate-limit response is at most the cap of the wrapper.
C16_BackoffGrowthComputed ==
    /\ \A i \in 1..Len(call_log) :
          RateLimitedAt(i) => call_log[i].delay <= DelayCap
    /\ \A i \in 1..(Len(call_log) - 1) :
          (/\ RateLimitedAt(i) /\ RateLimitedAt(i + 1)
           /\ ~call_log[i].provided /\ ~call_log[i + 1].provided) =>
              call_log[i].delay <= call_log[i + 1].delay

\* C16 witness: three rate-limit responses in a row in execute_with_backoff,
\* the delays growing up to the cap.
C16_Witness ==
    /\ call_op = "ewb"
    /\ Len(call_log) >= 3
    /\ \A i \in 1..3 : RateLimitedAt(i)
    /\ call_log[1].delay < call_log[2].delay
    /\ call_log[2].delay < call_log[3].delay
    /\ call_log[3].delay = MaxBackoff

\* C17: a call none of whose attempts succeeded ends by raising, and no call
\* makes more attempts than max_retries.
C17_ExhaustionRaises ==
    /\ Len(call_log) <= MaxRetries
    /\ (CallOver /\ \A i \in 1..Len(call_log) : call_log[i].resp # "ok") =>
           call_pc = "raised"

\* C27: a transient failure is retried like a rate-limit response: it does
\* not end the call while attempts are left, and the sleep after it is the
\* one of the backoff schedule.
C27_TransientRetried ==
    \A i \in 1..Len(call_log) :
        call_log[i].resp = "transient" =>
            /\ call_log[i].delay > 0
            /\ (CallOver /\ i = Len(call_log)) => i = MaxRetries

\* C28: a non-retryable error ends the call at once: it is the only attempt
\* of the call, no sleep follows it, and the call raises.
C28_NonRetryablePropagates ==
    \A i \in 1..Len(call_log) :
        call_log[i].resp = "client_error" =>
            /\ i = 1
            /\ call_log[i].delay = 0
            /\ call_pc = "raised"

(***************************************************************************)
(* Claim about the alert type (checked under PrefSpec)                      *)
(***************************************************************************)
\* C19: the alert type is "high" exactly when the risk reaches the high
\* threshold and high notifications are on; else "medium" exactly when the
\* risk reaches the medium threshold and medium notifications are on; else
\* none.
C19_AlertTypeDerivation ==
    pref_type # "unset" =>
        LET high == /\ pref_pct >= pref_sub.high_risk_threshold
                    /\ pref_sub.notify_on_high
            medium == /\ ~high
                      /\ pref_pct >= pref_sub.medium_risk_threshold
                      /\ pref_sub.notify_on_medium
        IN  /\ pref_type = "high" <=> high
            /\ pref_type = "medium" <=> medium
            /\ pref_type = "none" <=> (~high /\ ~medium)

\* C19 witness: a risk above the high threshold, high notifications off and
\* medium on, gave "medium".
C19_Witness ==
    /\ pref_type = "medium"
    /\ pref_pct > pref_sub.high_risk_threshold
    /\ pref_sub.high_risk_threshold > pref_sub.medium_risk_threshold
    /\ ~pref_sub.notify_on_high
    /\ pref_sub.notify_on_medium

(***************************************************************************)
(* Claim about the cooldown over changing risk (checked under CooldownSpec) *)
(***************************************************************************)
\* The protocols the notification calls of the run list for subscriber s.
ListedFor(s) ==
    UNION {run_calls[s][i].protocols : i \in 1..Len(run_calls[s])}

\* The newest RiskScore row of active protocol p is at or above a threshold
\* subscriber s is notified on.
AtOrAboveThreshold(s, p) ==
    /\ protocol_active[p]
    /\ risk_rows[p] # <<>>
    /\ LET pct == risk_rows[p][Len(risk_rows[p])]
           sub == subscribers[s]
       IN  \/ sub.notify_on_high /\ pct >= sub.high_risk_threshold
           \/ sub.notify_on_medium /\ pct >= sub.medium_risk_threshold

\* C31: the cooldown is per subscriber: a run that finds the subscriber in
\* its cooldown sends it nothing, whichever protocols are above its
\* thresholds, and a run that does send lists exactly the protocols at or
\* above a threshold in that run, nothing kept from the runs that were
\* held back.
C31_NothingCarriedOver ==
    run_kind = "check" =>
        \A s \in Subscribers :
            /\ InCooldown(s) => run_calls[s] = <<>>
            /\ run_calls[s] # <<>> =>
                  ListedFor(s) = {p \in Protocols : AtOrAboveThreshold(s, p)}

\* C31 witness: a protocol rose above the threshold and fell below it again;
\* while it was above, a run held it back for the cooldown of a subscriber;
\* the run after the cooldown notifies that subscriber without it.
C31_Witness ==
    /\ run_kind = "check"
    /\ \E s \in Subscribers, p \in Protocols :
          /\ run_prev[s] > alert_cooldown
          /\ run_calls[s] # <<>>
          /\ risk_rows[p] = <<30, 80, 30>>
          /\ p \in run_suppressed[s]
          /\ p \notin ListedFor(s)

(***************************************************************************)
(* Claim about the identifier resolution (checked under ResolveSpec)        *)
(***************************************************************************)
\* The priority of an entry: 1 for the token's symbol (where the resolver is
\* given one), 2 for the protocol's name, 3 for a name that contains it, 4
\* for no match.
MatchRank(c, with_symbol) ==
    IF with_symbol /\ SymbolEquals(c) THEN 1
    ELSE IF NameEquals(c) THEN 2
    ELSE IF NameContains(c) THEN 3
    ELSE 4

\* C32: the resolver returns an entry of the best priority the whole result
\* list has (symbol, then name, then containment), and not-found when no
\* entry matches.
C32_PriorityOverWholeList ==
    resolve_pc # "idle" =>
        LET with_symbol == resolve_pc = "asset"
            Rank(i) == MatchRank(resolve_list[i], with_symbol)
            entries == 1..Len(resolve_list)
        IN  IF \A i \in entries : Rank(i) = 4
            THEN resolve_result = NotFound
            ELSE /\ resolve_result # NotFound
                 /\ \A i \in entries : Rank(resolve_result) <= Rank(i)

(***************************************************************************)
(* Claims about the statistics of the RateLimiter (checked under StatsSpec) *)
(***************************************************************************)
\* C34: get_stats() does not wait on an acquire() caller: while a caller is
\* suspended waiting for a slot, no get_stats() is parked waiting for its
\* statistics.
C34_StatsNeverWait ==
    (\E c \in Callers : rl_pc[c] = "sleeping") => stats_pc # "lock_wait"

\* C38: reset_stats() sets total_calls and total_rate_limited to zero and
\* leaves the sliding window as it is, and with resets at any time the
\* grants inside one period never exceed max_calls.
C38_ResetKeepsWindow ==
    /\ [](Len(grants) <= MaxCalls)
    /\ [][total_calls' < total_calls =>
             /\ total_calls' = 0
             /\ total_rate_limited' = 0
             /\ call_times' = call_times
             /\ grants' = grants]_vars

\* C38 witness: the counters were reset while the window is full and a caller
\* sleeps for a slot.
C38_Witness ==
    /\ total_calls = 0
    /\ total_rate_limited = 0
    /\ Len(call_times) = MaxCalls
    /\ Len(grants) = MaxCalls
    /\ \E c \in Callers : rl_pc[c] = "sleeping"

(***************************************************************************)
(* Claim about the delay after a rate-limit response (checked under         *)
(* ClientSpec)                                                              *)
(***************************************************************************)
\* C33: after a rate-limit response that carries a retry delay of the
\* provider, the wait before the next attempt is that delay.
C33_ProvidedDelayHonoured ==
    \A i \in 1..Len(call_log) :
        (RateLimitedAt(i) /\ call_log[i].provided) =>
            call_log[i].delay = call_log[i].retry_after

(***************************************************************************)
(* Claims about the cycle counter and force-update (checked under SchedSpec) *)
(***************************************************************************)
\* C35: update_count never decreases; a step in which a cycle runs to its
\* end adds exactly one to it and sets last_update_time to that cycle's
\* start; every other step, the end of a cycle that was aborted by an
\* exception included, leaves both as they are.
C35_CountFollowsCompletedCycles ==
    [][\/ /\ tasks' = tasks
          /\ update_count' = update_count
          /\ last_update_time' = last_update_time
       \/ /\ update_count' >= update_count
          /\ \A t \in TaskIds :
                (tasks[t].pc = "alerts" /\ tasks'[t].pc = "done") =>
                    /\ update_count' = update_count + 1
                    /\ last_update_time' = t
          /\ (\A t \in TaskIds :
                ~(tasks[t].pc = "alerts" /\ tasks'[t].pc = "done")) =>
                    /\ update_count' = update_count
                    /\ last_update_time' = last_update_time]_vars

\* C35 witness: after a cycle that completed, another was aborted by an
\* exception, and the statistics are those of the completed one.
C35_Witness ==
    /\ sched_log.op = "cycle_fault"
    /\ update_count = 1
    /\ last_update_time # NoTask
    /\ tasks[last_update_time].pc = "done"
    /\ Cardinality({t \in TaskIds : tasks[t].pc = "done"}) >= 2

\* C37: a force-update request made while the scheduler is not running is
\* answered with the error 503.
C37_RefusedWhenStopped ==
    (/\ sched_log.op \in {"force_unserved", "force_503", "force_accepted"}
     /\ ~is_running) =>
        sched_log.op = "force_503"

(***************************************************************************)
(* Claim about the statistics of a dispatch run (checked under AlertSpec)   *)
(***************************************************************************)
\* C36: the run's alerts_sent and alerts_skipped_cooldown add up to the
\* number of triggered (subscriber, protocol) pairs, and subscribers_notified
\* is the number of subscribers a send was attempted for.
C36_StatsAccountForCandidates ==
    run_kind = "check" =>
        /\ StatsGet(run_stats, "alerts_sent")
             + StatsGet(run_stats, "alerts_skipped_cooldown")
           = Cardinality({pair \in Subscribers \X Protocols :
                             /\ Triggered(pair[1])
                             /\ pair[2] \in AlertsForSubscriber(pair[1])})
        /\ StatsGet(run_stats, "subscribers_notified")
           = Cardinality({s \in Subscribers : run_calls[s] # <<>>})

\* C36 witness: a run in which the send to one subscriber failed and the
\* candidates of the other were skipped for its cooldown.
C36_Witness ==
    /\ run_kind = "check"
    /\ \E s1, s2 \in Subscribers :
          /\ run_calls[s1] # <<>>
          /\ run_outcome[s1] = "fail"
          /\ Suppressed(s2)
    /\ StatsGet(run_stats, "alerts_sent") > 1
    /\ StatsGet(run_stats, "alerts_skipped_cooldown") > 1
    /\ StatsGet(run_stats, "subscribers_notified") = 1

====
